---- MODULE Spec2Model ----
(***************************************************************************)
(* State-machine model of the ClawRouter routing core: the model health    *)
(* tracker, the session store, the rule classifier with hysteresis, the    *)
(* score cache, the adaptive weight manager and the route orchestrator.    *)
(*                                                                         *)
(* Conventions.                                                            *)
(*  - Time is in milliseconds (Date.now()).  The clock `now` advances by   *)
(*    TickStep.  updateHealth is always called with timestamp = Date.now() *)
(*    (as recordRoutingFeedback and the tests do).                         *)
(*  - Success rates are exact rationals successful/total; thresholds are   *)
(*    percentages (0.95 is 95) and comparisons are cross-multiplied.       *)
(*  - Exponential moving averages are kept in fixed point (1/1000 of the   *)
(*    unit) with truncating division.                                      *)
(*  - Weighted scores are in 1/1000 (every weight is a multiple of 0.01    *)
(*    and every dimension score a multiple of 0.1).                        *)
(*  - Record fields that are written but never read by any decision        *)
(*    (model, tier, lastRequest, lastSuccess of a health record) are not   *)
(*    carried.                                                             *)
(***************************************************************************)
EXTENDS Integers, Sequences, FiniteSets, TLC

VARIABLES
  now,             \* Date.now()
  healthRecords,   \* ModelHealthTracker.healthRecords : model -> record
  latencyHistory,  \* ModelHealthTracker.latencyHistory : model -> Seq(latency)
  sessionEnabled,  \* SessionStore.config.enabled
  sessions,        \* SessionStore.sessions : session id -> entry
  scoreHistory,    \* rules.ts scoreHistory, entries in insertion order
  scoreCache,      \* ScoreCache: cache, accessOrder, jitterTracker, jitterLocks
  adaptive,        \* AdaptiveWeightManager: dimensionStats, requestCount,
                   \* lastAdjustment
  routed,          \* the last decision route returned, awaiting feedback
  inflight,        \* concurrent requests: the decision each one holds and the
                   \* number of feedback calls completed per model
  ret,             \* the last call made and the value it returned
  steps            \* number of API calls made so far (bounds the exploration)

healthVars == <<healthRecords, latencyHistory>>
sessionVars == <<sessionEnabled, sessions>>
classifierVars == <<scoreHistory>>
routerVars == <<scoreCache, adaptive, routed, inflight>>

vars ==
  <<now, healthVars, sessionVars, classifierVars, routerVars, ret, steps>>

-----------------------------------------------------------------------------
(* Bounds of the exploration *)

MaxTime == 400000
TickStep == 100000
MaxHealthSteps == 4
MaxTrackerSteps == 3

-----------------------------------------------------------------------------
(* Health tracker: configuration (DEFAULT_HEALTH_CONFIG) *)

healthyThreshold == 95
degradedThreshold == 80
maxConsecutiveErrors == 3
cooldownDurationMs == 300000
latencyThresholdMs == 30000
recoveryThreshold == 90
recoveryRequests == 5
\* "Auto-cooldown unhealthy models": totalRequests >= 10
autoCooldownMinRequests == 10
\* latency history window
latencyWindow == 100

Models == {"primary", "fallback"}
ErrorTypes == {"timeout", "auth", "payment_required"}
NoError == "none"
\* latencies reported by callers: a fast one and one above latencyThresholdMs
Latencies == {100, 40000}
\* forceCooldown's optional durationMs (0 stands for "not given")
ForceDurations == {0, 100000}
\* numbers of successful fast requests a model may have served before the
\* exploration starts
Warmups == {0, 27, 56}

NoRecord ==
  [exists |-> FALSE, status |-> "healthy", totalRequests |-> 0,
   successfulRequests |-> 0, successRate |-> <<1, 1>>, avgLatencyMs |-> 0,
   p95LatencyMs |-> 0, consecutiveErrors |-> 0,
   errorTypes |-> [e \in ErrorTypes |-> 0],
   cooldownUntil |-> 0, cooldownReason |-> "none"]

\* ensureRecord that starts a new record on every call
ensureRecord_Fresh(rec) == [NoRecord EXCEPT !.exists = TRUE]

ensureRecord(rec) ==
  IF rec.exists THEN rec ELSE [NoRecord EXCEPT !.exists = TRUE]

\* record.successRate is kept as the pair <<numerator, denominator>> of the
\* division that computed it (1.0 initially)
RateNum(rec) == rec.successRate[1]
RateDen(rec) == rec.successRate[2]
RateAtLeast(rec, pct) == RateNum(rec) * 100 >= pct * RateDen(rec)

\* sorted[k] of [...history].sort((a, b) => a - b), k counted from 0
SortedAt(h, k) ==
  CHOOSE v \in {h[i] : i \in 1..Len(h)} :
    /\ Cardinality({i \in 1..Len(h) : h[i] < v}) <= k
    /\ Cardinality({i \in 1..Len(h) : h[i] <= v}) > k

\* sorted[p95Index] || sorted[sorted.length - 1]
P95(h) ==
  LET p95Index == (Len(h) * 95) \div 100
      v == SortedAt(h, p95Index)
  IN IF v # 0 THEN v ELSE SortedAt(h, Len(h) - 1)

PushLatency(h, lat) ==
  LET h1 == Append(h, lat)
  IN IF Len(h1) > latencyWindow THEN Tail(h1) ELSE h1


\* updateStatus(record, now) that leaves cooldown on any request, whatever the
\* success rate (a plausible slip: the recovery test dropped)
updateStatus_RecoverAlways(rec, t) ==
  IF rec.cooldownUntil > t
  THEN [rec EXCEPT !.cooldownUntil = 0, !.consecutiveErrors = 0,
                   !.status = "degraded"]
  ELSE IF rec.consecutiveErrors >= maxConsecutiveErrors
  THEN [rec EXCEPT !.status = "cooldown",
                   !.cooldownUntil = t + cooldownDurationMs,
                   !.cooldownReason = "errors"]
  ELSE [rec EXCEPT !.status = "healthy"]

\* updateStatus(record, now) without the auto-cooldown of unhealthy models
updateStatus_NoAutoCooldown(rec, t) ==
  IF rec.cooldownUntil > t
  THEN IF RateAtLeast(rec, recoveryThreshold)
          /\ rec.totalRequests >= recoveryRequests
       THEN [rec EXCEPT !.cooldownUntil = 0, !.consecutiveErrors = 0,
                        !.status = "degraded"]
       ELSE [rec EXCEPT !.status = "cooldown"]
  ELSE IF rec.consecutiveErrors >= maxConsecutiveErrors
  THEN [rec EXCEPT !.status = "cooldown",
                   !.cooldownUntil = t + cooldownDurationMs,
                   !.cooldownReason = "errors"]
  ELSE IF rec.p95LatencyMs > latencyThresholdMs
  THEN [rec EXCEPT !.status = "degraded"]
  ELSE IF RateAtLeast(rec, healthyThreshold)
  THEN [rec EXCEPT !.status = "healthy"]
  ELSE IF RateAtLeast(rec, degradedThreshold)
  THEN [rec EXCEPT !.status = "degraded"]
  ELSE [rec EXCEPT !.status = "unhealthy"]

\* ModelHealthTracker.updateStatus(record, now)
updateStatus(rec, t) ==
  IF rec.cooldownUntil > t
  THEN \* in cooldown; "recent" rate is the lifetime rate
       IF RateAtLeast(rec, recoveryThreshold)
          /\ rec.totalRequests >= recoveryRequests
       THEN [rec EXCEPT !.cooldownUntil = 0, !.consecutiveErrors = 0,
                        !.status = "degraded"]
       ELSE [rec EXCEPT !.status = "cooldown"]
  ELSE IF rec.consecutiveErrors >= maxConsecutiveErrors
  THEN [rec EXCEPT !.status = "cooldown",
                   !.cooldownUntil = t + cooldownDurationMs,
                   !.cooldownReason = "errors"]
  ELSE IF rec.p95LatencyMs > latencyThresholdMs
  THEN [rec EXCEPT !.status = "degraded"]
  ELSE IF RateAtLeast(rec, healthyThreshold)
  THEN [rec EXCEPT !.status = "healthy"]
  ELSE IF RateAtLeast(rec, degradedThreshold)
  THEN [rec EXCEPT !.status = "degraded"]
  ELSE IF rec.totalRequests >= autoCooldownMinRequests
  THEN [rec EXCEPT !.status = "cooldown",
                   !.cooldownUntil = t + cooldownDurationMs,
                   !.cooldownReason = "lowrate"]
  ELSE [rec EXCEPT !.status = "unhealthy"]

\* ModelHealthTracker.updateHealth(update): the new latency history of the model
updateHealthHistory(hist, latencyMs) == PushLatency(hist, latencyMs)

\* ModelHealthTracker.updateHealth(update): the new record of the model.
\* errorType is NoError when the update carries none.
updateHealthRecord(rec0, hist, success, latencyMs, errorType, t) ==
  LET rec  == ensureRecord(rec0)
      h1   == updateHealthHistory(hist, latencyMs)
      r1   == [rec EXCEPT
                 !.totalRequests = @ + 1,
                 !.avgLatencyMs = (7 * @ + 3 * latencyMs * 1000) \div 10,
                 !.p95LatencyMs = IF Len(h1) > 0 THEN P95(h1) ELSE @]
      r2   == IF success
              THEN [r1 EXCEPT !.successfulRequests = @ + 1,
                              !.consecutiveErrors = 0]
              ELSE [r1 EXCEPT
                      !.consecutiveErrors = @ + 1,
                      !.errorTypes =
                         IF errorType \in ErrorTypes
                         THEN [@ EXCEPT ![errorType] = @ + 1] ELSE @]
      r3   == [r2 EXCEPT
                 !.successRate = <<r2.successfulRequests, r2.totalRequests>>]
  IN updateStatus(r3, t)

\* isAvailable(model) that ignores the cooldown deadline
isAvailableResult_IgnoreDeadline(rec, t) ==
  IF ~rec.exists THEN TRUE ELSE rec.status # "unhealthy"

\* ModelHealthTracker.isAvailable(model): the value returned
isAvailableResult(rec, t) ==
  IF ~rec.exists THEN TRUE
  ELSE IF rec.status = "cooldown" THEN t > rec.cooldownUntil
  ELSE rec.status # "unhealthy"

\* ModelHealthTracker.isAvailable(model): the record it leaves
isAvailableRecord(rec, t) ==
  IF rec.exists /\ rec.status = "cooldown" /\ t > rec.cooldownUntil
  THEN [rec EXCEPT !.status = "degraded", !.cooldownUntil = 0]
  ELSE rec

\* healthRecords.get(m): candidates that are not model names have no record
getHealth(hr, m) == IF m \in DOMAIN hr THEN hr[m] ELSE NoRecord

statusPriority(status) ==
  CASE status = "healthy" -> 0
    [] status = "degraded" -> 1
    [] status = "unhealthy" -> 2
    [] status = "cooldown" -> 3

Abs(x) == IF x < 0 THEN -x ELSE x

\* the comparator of getBestModel's sort: negative when a goes first
compareHealth(a, b) ==
  LET aPriority == statusPriority(a.status)
      bPriority == statusPriority(b.status)
      \* Math.abs(aRate - bRate) > 0.05
      rateDiffers ==
        20 * Abs(RateNum(a) * RateDen(b) - RateNum(b) * RateDen(a))
           > RateDen(a) * RateDen(b)
  IN IF aPriority # bPriority THEN aPriority - bPriority
     ELSE IF rateDiffers
     THEN RateNum(b) * RateDen(a) - RateNum(a) * RateDen(b)
     ELSE a.avgLatencyMs - b.avgLatencyMs

\* Array.prototype.sort with that comparator (stable insertion sort)
RECURSIVE InsertSorted(_, _, _)
InsertSorted(hr, sorted, x) ==
  IF sorted = << >> THEN <<x>>
  ELSE LET last == sorted[Len(sorted)]
       IN IF compareHealth(getHealth(hr, x), getHealth(hr, last)) < 0
          THEN Append(InsertSorted(hr, SubSeq(sorted, 1, Len(sorted) - 1), x),
                      last)
          ELSE Append(sorted, x)

RECURSIVE SortByHealth(_, _)
SortByHealth(hr, s) ==
  IF s = << >> THEN << >>
  ELSE InsertSorted(hr, SortByHealth(hr, SubSeq(s, 1, Len(s) - 1)), s[Len(s)])

\* the health records after candidates.filter((m) => this.isAvailable(m))
recordsAfterFilter(hr, candidates, t) ==
  [m \in DOMAIN hr |->
     IF \E i \in 1..Len(candidates) : candidates[i] = m
     THEN isAvailableRecord(hr[m], t) ELSE hr[m]]

Null == "null"

\* ModelHealthTracker.getBestModel(tier, candidates): the value returned
getBestModel(hr, candidates, t) ==
  LET isAvail(m) == isAvailableResult(getHealth(hr, m), t)
      available == SortByHealth(recordsAfterFilter(hr, candidates, t),
                                SelectSeq(candidates, isAvail))
  IN IF available = << >> THEN Null ELSE available[1]

\* ModelHealthTracker.forceCooldown(model, durationMs, reason)
forceCooldown(rec, durationMs, t) ==
  IF ~rec.exists THEN rec
  ELSE [rec EXCEPT
          !.status = "cooldown",
          !.cooldownUntil =
             t + (IF durationMs # 0 THEN durationMs ELSE cooldownDurationMs),
          !.cooldownReason = "manual",
          !.consecutiveErrors = maxConsecutiveErrors]


-----------------------------------------------------------------------------
(* Session store (SessionStore); createdAt, avgCost and requestTimestamps are *)
(* written but read by no decision and not carried; of the context snapshot   *)
(* the topics and the intent are carried.                                     *)

timeoutMs == 1800000
degradationThreshold == 2
sessionRecoveryThreshold == 3
maxRecentErrors == 5

SessionIds == {"session-1"}
SessionTiers == {"MEDIUM", "COMPLEX"}
NoReason == "none"

\* results reported to recordResult: a success, a failure with an error
\* message and a failure without one
SessionResults ==
  { [success |-> TRUE, latencyMs |-> 1500, inputTokens |-> 100,
     outputTokens |-> 200, error |-> NoError],
    [success |-> FALSE, latencyMs |-> 100, inputTokens |-> 50,
     outputTokens |-> 0, error |-> "timeout"],
    [success |-> FALSE, latencyMs |-> 100, inputTokens |-> 50,
     outputTokens |-> 0, error |-> NoError] }

NoDegradation ==
  [isDegraded |-> FALSE, originalModel |-> Null, originalTier |-> Null,
   reason |-> NoReason, degradedAt |-> -1, recoveryRequests |-> 0]

\* sessions.get(sessionId) === undefined
NoSession ==
  [exists |-> FALSE, model |-> Null, tier |-> Null, lastUsedAt |-> 0,
   requestCount |-> 0,
   metrics |-> [successRate |-> 1000, avgLatencyMs |-> 0,
                consecutiveFailures |-> 0, totalInputTokens |-> 0,
                totalOutputTokens |-> 0],
   degradation |-> NoDegradation,
   recentErrors |-> << >>,
   contextSnapshot |-> [topics |-> << >>, intent |-> "general"]]

\* SessionStore.getSession(sessionId): the entry it leaves
\* getSession expiring an entry as soon as its age reaches timeoutMs
getSessionEntry_ExpiresAtTimeout(enabled, entry, t) ==
  IF ~enabled \/ ~entry.exists THEN entry
  ELSE IF t - entry.lastUsedAt >= timeoutMs THEN NoSession
  ELSE [entry EXCEPT !.lastUsedAt = t]

getSessionEntry(enabled, entry, t) ==
  IF ~enabled \/ ~entry.exists THEN entry
  ELSE IF t - entry.lastUsedAt > timeoutMs THEN NoSession
  ELSE [entry EXCEPT !.lastUsedAt = t]

\* SessionStore.getSession(sessionId): the entry returned (NoSession for
\* undefined)
getSession(enabled, entry, t) ==
  IF ~enabled \/ ~entry.exists THEN NoSession
  ELSE getSessionEntry(enabled, entry, t)

\* SessionStore.setSession(sessionId, model, tier)
setSession(enabled, entry, model, tier, t) ==
  IF ~enabled THEN entry
  ELSE IF entry.exists
  THEN LET e1 == [entry EXCEPT !.lastUsedAt = t, !.requestCount = @ + 1]
       IN IF e1.model # model
          THEN [e1 EXCEPT
                  !.degradation =
                     IF ~e1.degradation.isDegraded
                     THEN [@ EXCEPT !.originalModel = e1.model,
                                    !.originalTier = e1.tier]
                     ELSE @,
                  !.model = model,
                  !.tier = tier]
          ELSE e1
  ELSE [NoSession EXCEPT !.exists = TRUE, !.model = model, !.tier = tier,
                         !.lastUsedAt = t, !.requestCount = 1]

\* SessionStore.getTierModels(tier)
getTierModels(tier) == << >>

\* SessionStore.degradeSession(sessionId, reason): the entry it leaves
degradeSession(entry, hr, t) ==
  IF ~entry.exists \/ entry.degradation.isDegraded THEN entry
  ELSE LET stableModel == getBestModel(hr, getTierModels(entry.tier), t)
       IN IF stableModel # Null /\ stableModel # entry.model
          THEN [entry EXCEPT
                  !.degradation =
                     [isDegraded |-> TRUE, originalModel |-> entry.model,
                      originalTier |-> entry.tier,
                      reason |-> "consecutive failures", degradedAt |-> t,
                      recoveryRequests |-> 0],
                  !.model = stableModel,
                  !.metrics.consecutiveFailures = 0]
          ELSE entry

\* SessionStore.degradeSession: the health records its getBestModel call leaves
degradeSessionHealth(entry, hr, t) ==
  IF ~entry.exists \/ entry.degradation.isDegraded THEN hr
  ELSE recordsAfterFilter(hr, getTierModels(entry.tier), t)

\* SessionStore.restoreOriginalModel(sessionId): the entry it leaves
restoreOriginalModel(entry, hr, t) ==
  IF ~entry.exists \/ ~entry.degradation.isDegraded THEN entry
  ELSE IF entry.degradation.originalModel = Null
          \/ entry.degradation.originalTier = Null THEN entry
  ELSE IF isAvailableResult(getHealth(hr, entry.degradation.originalModel), t)
  THEN [entry EXCEPT !.model = entry.degradation.originalModel,
                     !.tier = entry.degradation.originalTier,
                     !.degradation = NoDegradation]
  ELSE entry

\* SessionStore.restoreOriginalModel: the health records its isAvailable call
\* leaves
restoreOriginalModelHealth(entry, hr, t) ==
  IF ~entry.exists \/ ~entry.degradation.isDegraded THEN hr
  ELSE IF entry.degradation.originalModel = Null
          \/ entry.degradation.originalTier = Null THEN hr
  ELSE recordsAfterFilter(hr, <<entry.degradation.originalModel>>, t)

\* entry.recentErrors.push(...) and shift() beyond the last 5
\* errors logged without a limit
pushRecentError_Unbounded(errors, e) == Append(errors, e)

pushRecentError(errors, e) ==
  LET e1 == Append(errors, e)
  IN IF Len(e1) > maxRecentErrors THEN Tail(e1) ELSE e1

\* SessionStore.recordResult(sessionId, result): the entry it leaves
recordResult(enabled, entry, hr, result, t) ==
  IF ~enabled \/ ~entry.exists THEN entry
  ELSE
    LET e1 == [entry EXCEPT
                 !.metrics.totalInputTokens = @ + result.inputTokens,
                 !.metrics.totalOutputTokens = @ + result.outputTokens,
                 !.metrics.avgLatencyMs =
                    (7 * @ + 3 * result.latencyMs * 1000) \div 10]
    IN IF result.success
       THEN LET e2 == [e1 EXCEPT
                         !.metrics.consecutiveFailures = 0,
                         !.metrics.successRate = (7 * @ + 3 * 1000) \div 10]
            IN IF e2.degradation.isDegraded
               THEN LET e3 == [e2 EXCEPT !.degradation.recoveryRequests = @ + 1]
                    IN IF e3.degradation.recoveryRequests
                            >= sessionRecoveryThreshold
                       THEN restoreOriginalModel(e3, hr, t)
                       ELSE e3
               ELSE e2
       ELSE LET e2 == [e1 EXCEPT
                         !.metrics.consecutiveFailures = @ + 1,
                         !.metrics.successRate = (7 * @) \div 10,
                         !.recentErrors =
                            IF result.error # NoError
                            THEN pushRecentError(@,
                                   [timestamp |-> t, error |-> result.error,
                                    model |-> entry.model])
                            ELSE @]
            IN IF e2.metrics.consecutiveFailures >= degradationThreshold
               THEN degradeSession(e2, hr, t)
               ELSE e2

\* SessionStore.recordResult: the health records it leaves
recordResultHealth(enabled, entry, hr, result, t) ==
  IF ~enabled \/ ~entry.exists THEN hr
  ELSE IF result.success
  THEN IF entry.degradation.isDegraded
          /\ entry.degradation.recoveryRequests + 1 >= sessionRecoveryThreshold
       THEN restoreOriginalModelHealth(entry, hr, t)
       ELSE hr
  ELSE IF entry.metrics.consecutiveFailures + 1 >= degradationThreshold
  THEN degradeSessionHealth(entry, hr, t)
  ELSE hr

\* SessionStore.isDegraded(sessionId)
isDegraded(entry) == IF entry.exists THEN entry.degradation.isDegraded ELSE FALSE

\* SessionStore.getDegradationInfo(sessionId), defined when the entry exists
getDegradationInfo(entry) ==
  [isDegraded |-> entry.degradation.isDegraded, currentModel |-> entry.model,
   originalModel |-> entry.degradation.originalModel,
   reason |-> entry.degradation.reason]

\* SessionStore.touchSession(sessionId)
touchSession(enabled, entry, t) ==
  IF ~enabled \/ ~entry.exists THEN entry
  ELSE [entry EXCEPT !.lastUsedAt = t, !.requestCount = @ + 1]

\* new SessionStore(config)
NoSessions == [s \in SessionIds |-> NoSession]

-----------------------------------------------------------------------------
(* Rule classifier (rules.ts).  A request is described by what the scorers   *)
(* extract from its text: the estimated token count and the number of        *)
(* keywords of each list it contains.  Dimension scores are in tenths,       *)
(* weights in hundredths, weighted scores and distances in thousandths,      *)
(* confidence in whole percents (rounded down).                              *)

TierNames == <<"SIMPLE", "MEDIUM", "COMPLEX", "REASONING">>
tierRank(tier) == CHOOSE i \in 1..4 : TierNames[i] = tier

\* scoring.tierBoundaries
simpleMedium == 0
mediumComplex == 180
complexReasoning == 400
\* scoring.tokenCountThresholds
tokenSimple == 50
tokenComplex == 500
fuzzyWidth == 50
\* scoring.confidenceThreshold and the floor of the reasoning override
confidenceThreshold == 70
reasoningConfidenceFloor == 85
reasoningOverrideMatches == 2
reasoningMinDistance == 300
historyLimit == 1000

\* scoring.dimensionWeights
dimensionWeights ==
  [tokenCount |-> 8, codePresence |-> 15, reasoningMarkers |-> 18,
   technicalTerms |-> 10, creativeMarkers |-> 5, simpleIndicators |-> 2,
   multiStepPatterns |-> 12, questionComplexity |-> 5, imperativeVerbs |-> 3,
   constraintCount |-> 4, outputFormat |-> 3, referenceComplexity |-> 2,
   negationComplexity |-> 1, domainSpecificity |-> 2, agenticTask |-> 4]

scoreTokenCount(estimatedTokens) ==
  IF estimatedTokens < tokenSimple
  THEN [name |-> "tokenCount", score |-> -10, signal |-> "short"]
  ELSE IF estimatedTokens > tokenComplex
  THEN [name |-> "tokenCount", score |-> 10, signal |-> "long"]
  ELSE [name |-> "tokenCount", score |-> 0, signal |-> Null]

\* matches is keywords.filter(kw => text.includes(kw)).length; the signal is
\* kept by its first word
scoreKeywordMatch(matches, name, signalLabel, low, high, sNone, sLow, sHigh) ==
  IF matches >= high
  THEN [name |-> name, score |-> sHigh, signal |-> signalLabel]
  ELSE IF matches >= low
  THEN [name |-> name, score |-> sLow, signal |-> signalLabel]
  ELSE [name |-> name, score |-> sNone, signal |-> Null]

scoreMultiStep(hits) ==
  IF hits > 0
  THEN [name |-> "multiStepPatterns", score |-> 5, signal |-> "multi-step"]
  ELSE [name |-> "multiStepPatterns", score |-> 0, signal |-> Null]

\* the signal "<n> questions" starts with the number, kept as "<n>"
scoreQuestionComplexity(questionCount, phraseMatches) ==
  IF questionCount > 3
  THEN [name |-> "questionComplexity", score |-> 5, signal |-> "<n>"]
  ELSE IF questionCount = 0 /\ phraseMatches >= 2
  THEN [name |-> "questionComplexity", score |-> 5,
        signal |-> "multi-question"]
  ELSE [name |-> "questionComplexity", score |-> 0, signal |-> Null]

scoreAgenticTask(matchCount) ==
  IF matchCount >= 4
  THEN [name |-> "agenticTask", score |-> 10, signal |-> "agentic"]
  ELSE IF matchCount >= 3
  THEN [name |-> "agenticTask", score |-> 6, signal |-> "agentic"]
  ELSE IF matchCount >= 1
  THEN [name |-> "agenticTask", score |-> 2, signal |-> "agentic-light"]
  ELSE [name |-> "agenticTask", score |-> 0, signal |-> Null]

\* the 15 dimension scores of a request, in the order classifyByRules builds
\* them
scoreDimensions(req) ==
  << scoreTokenCount(req.estimatedTokens),
     scoreKeywordMatch(req.matches.code, "codePresence", "code",
                       1, 2, 0, 5, 10),
     scoreKeywordMatch(req.matches.reasoning, "reasoningMarkers", "reasoning",
                       1, 2, 0, 7, 10),
     scoreKeywordMatch(req.matches.technical, "technicalTerms", "technical",
                       2, 4, 0, 5, 10),
     scoreKeywordMatch(req.matches.creative, "creativeMarkers", "creative",
                       1, 2, 0, 5, 7),
     scoreKeywordMatch(req.matches.simple, "simpleIndicators", "simple",
                       1, 2, 0, -10, -10),
     scoreMultiStep(req.multiStepHits),
     scoreQuestionComplexity(req.questionCount, req.phraseMatches),
     scoreKeywordMatch(req.matches.imperative, "imperativeVerbs", "imperative",
                       1, 2, 0, 3, 5),
     scoreKeywordMatch(req.matches.constraint, "constraintCount",
                       "constraints", 1, 3, 0, 3, 7),
     scoreKeywordMatch(req.matches.format, "outputFormat", "format",
                       1, 2, 0, 4, 7),
     scoreKeywordMatch(req.matches.reference, "referenceComplexity",
                       "references", 1, 2, 0, 3, 5),
     scoreKeywordMatch(req.matches.negation, "negationComplexity", "negation",
                       2, 3, 0, 3, 5),
     scoreKeywordMatch(req.matches.domain, "domainSpecificity",
                       "domain-specific", 1, 2, 0, 5, 8),
     scoreAgenticTask(req.matches.agentic) >>

\* dimensions.filter(d => d.signal !== null).map(d => d.signal)
RECURSIVE collectSignals(_)
collectSignals(dims) ==
  IF dims = << >> THEN << >>
  ELSE LET rest == collectSignals(Tail(dims))
       IN IF Head(dims).signal # Null THEN <<Head(dims).signal>> \o rest
          ELSE rest

\* sum of d.score * weights[d.name]
RECURSIVE weightedSum(_)
weightedSum(dims) ==
  IF dims = << >> THEN 0
  ELSE Head(dims).score * dimensionWeights[Head(dims).name]
         + weightedSum(Tail(dims))

Min(a, b) == IF a < b THEN a ELSE b
Max(a, b) == IF a > b THEN a ELSE b

\* getScoreHistory's default for an unknown fingerprint
NoHistory ==
  [lastScore |-> 0, lastTier |-> Null, consecutiveSameTier |-> 0,
   lastBoundary |-> ""]

hasHistory(h, fingerprint) == \E i \in 1..Len(h) : h[i].key = fingerprint

historyIndex(h, fingerprint) ==
  CHOOSE i \in 1..Len(h) : h[i].key = fingerprint

getScoreHistory(h, fingerprint) ==
  IF hasHistory(h, fingerprint) THEN h[historyIndex(h, fingerprint)].value
  ELSE NoHistory

\* cleanupScoreHistory(): drops the oldest entries beyond historyLimit
cleanupScoreHistory(h) ==
  IF Len(h) > historyLimit THEN SubSeq(h, Len(h) - historyLimit + 1, Len(h))
  ELSE h

\* updateScoreHistory(fingerprint, score, tier, boundary); cleanup tells
\* whether Math.random() < 0.01
updateScoreHistory(h, fingerprint, score, tier, boundary, cleanup) ==
  LET existing == getScoreHistory(h, fingerprint)
      consecutive == IF hasHistory(h, fingerprint) /\ existing.lastTier = tier
                     THEN existing.consecutiveSameTier + 1 ELSE 1
      value == [lastScore |-> score, lastTier |-> tier,
                consecutiveSameTier |-> consecutive, lastBoundary |-> boundary]
      h1 == IF hasHistory(h, fingerprint)
            THEN [h EXCEPT ![historyIndex(h, fingerprint)].value = value]
            ELSE Append(h, [key |-> fingerprint, value |-> value])
  IN IF cleanup THEN cleanupScoreHistory(h1) ELSE h1

\* the tier of a score without hysteresis
naturalTier(score) ==
  IF score < simpleMedium THEN "SIMPLE"
  ELSE IF score < mediumComplex THEN "MEDIUM"
  ELSE IF score < complexReasoning THEN "COMPLEX"
  ELSE "REASONING"

\* the distance of a score from the nearest boundary of its tier
naturalDistance(score) ==
  IF score < simpleMedium THEN simpleMedium - score
  ELSE IF score < mediumComplex
  THEN Min(score - simpleMedium, mediumComplex - score)
  ELSE IF score < complexReasoning
  THEN Min(score - mediumComplex, complexReasoning - score)
  ELSE score - complexReasoning

nearestBoundary(score) ==
  IF score < simpleMedium THEN "simple-medium"
  ELSE IF score < mediumComplex
  THEN IF 2 * score < simpleMedium + mediumComplex THEN "simple-medium"
       ELSE "medium-complex"
  ELSE IF score < complexReasoning
  THEN IF 2 * score < mediumComplex + complexReasoning THEN "medium-complex"
       ELSE "complex-reasoning"
  ELSE "complex-reasoning"

\* calculateTierWithHysteresis(score, boundaries, history, 0.05)
calculateTierWithHysteresis(score, history) ==
  LET currentTier == naturalTier(score)
      currentDistance == naturalDistance(score)
      boundary == nearestBoundary(score)
      kept == [tier |-> history.lastTier, distance |-> currentDistance,
               boundary |-> boundary, usedHysteresis |-> TRUE]
  IN IF history.lastTier # Null /\ currentTier # history.lastTier
     THEN IF currentDistance < fuzzyWidth
          THEN [kept EXCEPT !.distance = fuzzyWidth]
          ELSE IF currentDistance < fuzzyWidth THEN kept
          ELSE [tier |-> currentTier, distance |-> currentDistance,
                boundary |-> boundary, usedHysteresis |-> FALSE]
     ELSE [tier |-> currentTier, distance |-> currentDistance,
           boundary |-> boundary, usedHysteresis |-> FALSE]

\* the least distance (thousandths) at which 1 / (1 + exp(-12 * distance))
\* reaches 51%, 52%, ..., 99%
ConfidenceSteps ==
  <<4, 7, 11, 14, 17, 21, 24, 27, 31, 34, 38, 41, 45, 48, 52, 56, 60, 63, 67,
    71, 75, 79, 83, 88, 92, 97, 101, 106, 111, 116, 121, 127, 133, 139, 145,
    152, 159, 167, 175, 184, 193, 204, 216, 230, 246, 265, 290, 325, 383>>

\* calibrateConfidence(distance, steepness = 12), in percent rounded down
calibrateConfidence(distance) ==
  50 + Cardinality({i \in 1..Len(ConfidenceSteps) :
                      distance >= ConfidenceSteps[i]})

\* classifyByRules counting the reasoning keywords of the system prompt too
classifyByRules_SystemCounts(req, h) ==
  LET dimensions == scoreDimensions(req)
      signals == collectSignals(dimensions)
      weightedScore == weightedSum(dimensions)
      hyst == calculateTierWithHysteresis(weightedScore,
                                          getScoreHistory(h, req.fingerprint))
      confidence == calibrateConfidence(hyst.distance)
  IN IF req.matches.reasoning + req.systemReasoning >= reasoningOverrideMatches
     THEN [score |-> weightedScore, tier |-> "REASONING",
           confidence |->
             Max(calibrateConfidence(Max(weightedScore, reasoningMinDistance)),
                 reasoningConfidenceFloor),
           signals |-> Append(signals, "reasoning-override"),
           agenticScore |-> dimensions[Len(dimensions)].score]
     ELSE [score |-> weightedScore,
           tier |-> IF confidence < confidenceThreshold THEN Null
                    ELSE hyst.tier,
           confidence |-> confidence,
           signals |-> IF hyst.usedHysteresis
                       THEN Append(signals, "hysteresis") ELSE signals,
           agenticScore |-> dimensions[Len(dimensions)].score]

\* classifyByRules(prompt, systemPrompt, estimatedTokens, config, fingerprint):
\* the ScoringResult returned
classifyByRules(req, h) ==
  LET dimensions == scoreDimensions(req)
      agenticScore == dimensions[Len(dimensions)].score
      signals == collectSignals(dimensions)
      weightedScore == weightedSum(dimensions)
      history == getScoreHistory(h, req.fingerprint)
      hyst == calculateTierWithHysteresis(weightedScore, history)
      confidence == calibrateConfidence(hyst.distance)
      allSignals == IF hyst.usedHysteresis
                    THEN Append(signals, "hysteresis") ELSE signals
  IN IF req.matches.reasoning >= reasoningOverrideMatches
     THEN [score |-> weightedScore, tier |-> "REASONING",
           confidence |->
             Max(calibrateConfidence(Max(weightedScore, reasoningMinDistance)),
                 reasoningConfidenceFloor),
           signals |-> Append(signals, "reasoning-override"),
           agenticScore |-> agenticScore]
     ELSE [score |-> weightedScore,
           tier |-> IF confidence < confidenceThreshold THEN Null
                    ELSE hyst.tier,
           confidence |-> confidence, signals |-> allSignals,
           agenticScore |-> agenticScore]

\* classifyByRules: the score history it leaves
classifyByRulesHistory(req, h, cleanup) ==
  LET weightedScore == weightedSum(scoreDimensions(req))
      history == getScoreHistory(h, req.fingerprint)
      hyst == calculateTierWithHysteresis(weightedScore, history)
  IN IF req.matches.reasoning >= reasoningOverrideMatches
     THEN updateScoreHistory(h, req.fingerprint, weightedScore, "REASONING",
                             "reasoning-override", cleanup)
     ELSE updateScoreHistory(h, req.fingerprint, weightedScore, hyst.tier,
                             hyst.boundary, cleanup)

\* a request without any keyword, of medium length
PlainRequest ==
  [id |-> "plain", fingerprint |-> "fpA", estimatedTokens |-> 100,
   structured |-> FALSE,
   matches |-> [code |-> 0, reasoning |-> 0, technical |-> 0, creative |-> 0,
                simple |-> 0, imperative |-> 0, constraint |-> 0,
                format |-> 0, reference |-> 0, negation |-> 0, domain |-> 0,
                agentic |-> 0],
   multiStepHits |-> 0, questionCount |-> 0, phraseMatches |-> 0,
   \* reasoning keywords found in the system prompt only
   systemReasoning |-> 0]

\* the requests callers make.  Requests of one fingerprint share the length
\* class and the first 100 and last 50 characters of the prompt and the first
\* 50 characters of the system prompt, and differ in the rest: those of "fpA"
\* in the rest of the system prompt, those of "fpB" (a system prompt of a few
\* characters, a prompt of 151 to 196) in the middle of the prompt.
Requests ==
  { \* score 0.100: MEDIUM, 0.08 from the nearest boundary
    [PlainRequest EXCEPT !.id = "medium", !.matches.technical = 4],
    \* score 0.194: COMPLEX, 0.014 above the MEDIUM/COMPLEX boundary
    [PlainRequest EXCEPT !.id = "complex-edge", !.matches.technical = 4,
                         !.matches.code = 1, !.matches.domain = 1,
                         !.matches.imperative = 1],
    \* score 0.175: MEDIUM, 0.005 below the MEDIUM/COMPLEX boundary
    [PlainRequest EXCEPT !.id = "medium-edge", !.matches.technical = 4,
                         !.matches.code = 1],
    \* score 0.310: COMPLEX, 0.09 from the nearest boundary
    [PlainRequest EXCEPT !.id = "complex", !.matches.technical = 4,
                         !.matches.code = 2, !.multiStepHits = 1],
    \* two reasoning keywords: the reasoning override
    [PlainRequest EXCEPT !.id = "reasoning", !.fingerprint = "fpB",
                         !.estimatedTokens = 51, !.matches.reasoning = 2],
    \* score -0.100: SIMPLE
    [PlainRequest EXCEPT !.id = "simple", !.fingerprint = "fpB",
                         !.estimatedTokens = 40, !.matches.simple = 1],
    \* four agentic keywords: score 0.040, too near a boundary for a tier
    [PlainRequest EXCEPT !.id = "agentic", !.fingerprint = "fpB",
                         !.estimatedTokens = 51, !.matches.agentic = 4],
    \* a system prompt asking for JSON: score -0.088, SIMPLE
    [PlainRequest EXCEPT !.id = "simple-json", !.estimatedTokens = 40,
                         !.structured = TRUE, !.matches.simple = 1,
                         !.matches.format = 1],
    \* a system prompt asking for JSON: score 0.012, too near a boundary for
    \* a tier
    [PlainRequest EXCEPT !.id = "json-edge", !.structured = TRUE,
                         !.matches.format = 1],
    \* more than maxTokensForceComplex tokens
    [PlainRequest EXCEPT !.id = "huge", !.estimatedTokens = 200000] }

-----------------------------------------------------------------------------
(* Score cache (ScoreCache).  Keys are fingerprints (getCacheKey is           *)
(* generateFingerprint).  Cached scores and distances are in millionths: a   *)
(* score in thousandths times the mean adaptive weight in thousandths.       *)

cacheMaxSize == 1000
ttlMs == 86400000
fuzzyBoundaryWidth == 50
jitterThreshold == 3
jitterWindow == 5
lockedConfidenceFloor == 70

\* the fingerprints of Requests and that of the requests of the reasoning
\* override
Fingerprints == {req.fingerprint : req \in Requests} \cup {"fpR"}

NoResult ==
  [score |-> 0, tier |-> Null, confidence |-> 0, signals |-> << >>,
   agenticScore |-> 0]

\* cache.get(key) === undefined
NoCached ==
  [exists |-> FALSE, result |-> NoResult, timestamp |-> 0, hitCount |-> 0,
   lastTier |-> Null, distanceToBoundary |-> 0, boundaryName |-> ""]

\* new ScoreCache(): maxSize is config.maxSize
EmptyCache ==
  [cache |-> [k \in Fingerprints |-> NoCached], accessOrder |-> << >>,
   jitterTracker |-> [k \in Fingerprints |-> << >>],
   jitterLocks |-> [k \in Fingerprints |-> Null],
   maxSize |-> cacheMaxSize]

\* new ScoreCache({ maxSize })
newScoreCache(maxSize) == [EmptyCache EXCEPT !.maxSize = maxSize]

cacheSize(c) == Cardinality({k \in Fingerprints : c.cache[k].exists})

\* removeFromAccessOrder that leaves the list as it is
removeFromAccessOrder_Keeps(order, key) == order

\* removeFromAccessOrder(key)
removeFromAccessOrder(order, key) == SelectSeq(order, LAMBDA k : k # key)

\* updateAccessOrder(key)
updateAccessOrder(order, key) == Append(removeFromAccessOrder(order, key), key)

\* get expiring an entry as soon as its age reaches ttlMs
cacheGetState_ExpiresAtTtl(c, key, t) ==
  IF ~c.cache[key].exists THEN c
  ELSE IF t - c.cache[key].timestamp >= ttlMs
  THEN [c EXCEPT !.cache[key] = NoCached,
                 !.accessOrder = removeFromAccessOrder(@, key)]
  ELSE [c EXCEPT !.cache[key].hitCount = @ + 1,
                 !.accessOrder = updateAccessOrder(@, key)]

\* ScoreCache.get(prompt, systemPrompt): the cache it leaves
cacheGetState(c, key, t) ==
  IF ~c.cache[key].exists THEN c
  ELSE IF t - c.cache[key].timestamp > ttlMs
  THEN [c EXCEPT !.cache[key] = NoCached,
                 !.accessOrder = removeFromAccessOrder(@, key)]
  ELSE [c EXCEPT !.cache[key].hitCount = @ + 1,
                 !.accessOrder = updateAccessOrder(@, key)]

\* ScoreCache.get(prompt, systemPrompt): the CachedScore returned (NoCached
\* for undefined)
cacheGet(c, key, t) ==
  LET cached == cacheGetState(c, key, t).cache[key]
      lockedTier == c.jitterLocks[key]
  IN IF ~cached.exists THEN NoCached
     ELSE IF lockedTier # Null /\ cached.result.tier # lockedTier
     THEN [cached EXCEPT
             !.result.tier = lockedTier,
             !.result.confidence = Max(@, lockedConfidenceFloor)]
     ELSE cached

\* ScoreCache.calculateBoundaryProximity(score, boundaries), score in
\* millionths: the first of the nearest boundaries
calculateBoundaryProximity(score) ==
  LET dSM == Abs(score - simpleMedium * 1000)
      dMC == Abs(score - mediumComplex * 1000)
      dCR == Abs(score - complexReasoning * 1000)
      first == IF dMC < dSM
               THEN [distance |-> dMC, boundaryName |-> "medium-complex"]
               ELSE [distance |-> dSM, boundaryName |-> "simple-medium"]
  IN IF dCR < first.distance
     THEN [distance |-> dCR, boundaryName |-> "complex-reasoning"]
     ELSE first

\* the number of occurrences of tier in a sequence of tiers
countTier(recent, tier) ==
  Cardinality({i \in 1..Len(recent) : recent[i] = tier})

\* the lock taking the latest tier of the window
mostFrequentTier_Latest(recent) == recent[Len(recent)]

\* [...tierCounts.entries()].sort((a, b) => b[1] - a[1])[0][0]: the most
\* frequent tier of recent, the one seen first among equals
mostFrequentTier(recent) ==
  LET firstAt(tier) == CHOOSE i \in 1..Len(recent) :
                         /\ recent[i] = tier
                         /\ \A j \in 1..(i - 1) : recent[j] # tier
  IN CHOOSE tier \in {recent[i] : i \in 1..Len(recent)} :
       \A other \in {recent[i] : i \in 1..Len(recent)} :
         \/ countTier(recent, tier) > countTier(recent, other)
         \/ /\ countTier(recent, tier) = countTier(recent, other)
            /\ firstAt(tier) <= firstAt(other)

\* ScoreCache.trackJitter(key, tier)
trackJitter(c, key, tier) ==
  IF tier = Null THEN c
  ELSE LET pushed == Append(c.jitterTracker[key], tier)
           history == IF Len(pushed) > jitterWindow THEN Tail(pushed)
                      ELSE pushed
           recent == SubSeq(history, Len(history) - jitterThreshold + 1,
                            Len(history))
       IN IF Len(history) >= jitterThreshold
             /\ Cardinality({recent[i] : i \in 1..Len(recent)}) >= 2
          THEN [c EXCEPT !.jitterTracker[key] = history,
                         !.jitterLocks[key] = mostFrequentTier(recent)]
          ELSE [c EXCEPT !.jitterTracker[key] = history]

\* eviction of the most recently accessed key
evictLRU_Newest(c) ==
  IF c.accessOrder = << >> THEN c
  ELSE LET newest == c.accessOrder[Len(c.accessOrder)]
       IN [c EXCEPT !.accessOrder = SubSeq(@, 1, Len(@) - 1),
                    !.cache[newest] = NoCached,
                    !.jitterTracker[newest] = << >>,
                    !.jitterLocks[newest] = Null]

\* eviction that finds nothing to evict
evictLRU_Nothing(c) == c

\* ScoreCache.evictLRU()
evictLRU(c) ==
  IF c.accessOrder = << >> THEN c
  ELSE LET oldest == Head(c.accessOrder)
       IN [c EXCEPT !.accessOrder = Tail(@),
                    !.cache[oldest] = NoCached,
                    !.jitterTracker[oldest] = << >>,
                    !.jitterLocks[oldest] = Null]

\* ScoreCache.set(prompt, systemPrompt, result, boundaries, score)
cacheSet(c, key, result, score, t) ==
  LET proximity == calculateBoundaryProximity(score)
      c1 == trackJitter(c, key, result.tier)
      cached == [exists |-> TRUE, result |-> result, timestamp |-> t,
                 hitCount |-> 1,
                 lastTier |-> IF result.tier # Null THEN result.tier
                              ELSE "MEDIUM",
                 distanceToBoundary |-> proximity.distance,
                 boundaryName |-> proximity.boundaryName]
      c2 == IF cacheSize(c1) >= c1.maxSize /\ ~c1.cache[key].exists
            THEN evictLRU(c1) ELSE c1
  IN [c2 EXCEPT !.cache[key] = cached,
                !.accessOrder = updateAccessOrder(@, key)]

\* ScoreCache.shouldUseCachedTier(cached, newScore, newTier)
shouldUseCachedTier(cached, newScore, newTier) ==
  IF newTier = Null \/ cached.result.tier = Null THEN FALSE
  ELSE IF cached.result.tier = newTier THEN FALSE
  ELSE cached.distanceToBoundary < fuzzyBoundaryWidth * 1000

\* ScoreCache.cleanup(): the cache it leaves
cacheCleanup(c, t) ==
  LET expired == {k \in Fingerprints :
                    c.cache[k].exists /\ t - c.cache[k].timestamp > ttlMs}
  IN [c EXCEPT
        !.cache = [k \in Fingerprints |->
                     IF k \in expired THEN NoCached ELSE c.cache[k]],
        !.accessOrder = SelectSeq(c.accessOrder, LAMBDA k : k \notin expired),
        !.jitterTracker = [k \in Fingerprints |->
                             IF k \in expired THEN << >>
                             ELSE c.jitterTracker[k]],
        !.jitterLocks = [k \in Fingerprints |->
                           IF k \in expired THEN Null ELSE c.jitterLocks[k]]]

\* ScoreCache.cleanup(): the number of entries it removed
cacheCleaned(c, t) ==
  Cardinality({k \in Fingerprints :
                 c.cache[k].exists /\ t - c.cache[k].timestamp > ttlMs})

\* ScoreCache.clear()
cacheClear(c) == newScoreCache(c.maxSize)

-----------------------------------------------------------------------------
(* Adaptive weights (AdaptiveWeightManager).  Latencies are in ms, costs in  *)
(* millionths of a dollar, rates, scores and factors in thousandths,         *)
(* rounded down.  tierStats and recentFeedback are written by recordFeedback *)
(* and read by reports only; they are left out.                              *)

adjustmentInterval == 10
maxAdjustment == 1200
minAdjustment == 800
latencyWeight == 300
costWeight == 300
successWeight == 400
minDimensionRequests == 5
smoothingKeep == 700
smoothingTake == 300
latencyRangeMs == 10000
costRange == 100000

Dimensions == DOMAIN dimensionWeights

\* initializeDimensionStats(): the stats of one dimension
NoDimensionStats ==
  [totalRequests |-> 0, successfulRequests |-> 0, totalLatency |-> 0,
   totalCost |-> 0, currentWeight |-> 1000, baseWeight |-> 1000,
   adjustmentFactor |-> 1000]

\* new AdaptiveWeightManager()
NoAdaptive ==
  [dimensionStats |-> [d \in Dimensions |-> NoDimensionStats],
   requestCount |-> 0, lastAdjustment |-> 0]

\* signalToDimension(signal): signals are kept by their first word
signalToDimension(signal) ==
  CASE signal = "code" -> "codePresence"
    [] signal = "reasoning" -> "reasoningMarkers"
    [] signal = "technical" -> "technicalTerms"
    [] signal = "creative" -> "creativeMarkers"
    [] signal = "simple" -> "simpleIndicators"
    [] signal = "multi-step" -> "multiStepPatterns"
    [] signal = "questions" -> "questionComplexity"
    [] signal = "imperative" -> "imperativeVerbs"
    [] signal = "constraints" -> "constraintCount"
    [] signal = "format" -> "outputFormat"
    [] signal = "references" -> "referenceComplexity"
    [] signal = "negation" -> "negationComplexity"
    [] signal = "domain-specific" -> "domainSpecificity"
    [] signal = "agentic" -> "agenticTask"
    [] OTHER -> Null

\* updateDimensionStats(dimension, feedback)
updateDimensionStats(stats, feedback) ==
  [stats EXCEPT
     !.totalRequests = @ + 1,
     !.successfulRequests = IF feedback.success THEN @ + 1 ELSE @,
     !.totalLatency = @ + feedback.latencyMs,
     !.totalCost = @ + feedback.cost]

\* the loop of recordFeedback over feedback.dimensionSignals
RECURSIVE updateSignalStats(_, _, _)
updateSignalStats(ds, signals, feedback) ==
  IF signals = << >> THEN ds
  ELSE LET dimName == signalToDimension(Head(signals))
           ds1 == IF dimName # Null
                  THEN [ds EXCEPT ![dimName] =
                          updateDimensionStats(@, feedback)]
                  ELSE ds
       IN updateSignalStats(ds1, Tail(signals), feedback)

\* normalizeLatency without its lower bound of 0
normalizeLatency_Unclamped(stats) ==
  1000 - stats.totalLatency
           \div (stats.totalRequests * (latencyRangeMs \div 1000))

\* normalizeLatency(stats.avgLatency)
normalizeLatency(stats) ==
  Max(0, 1000 - stats.totalLatency
                  \div (stats.totalRequests * (latencyRangeMs \div 1000)))

\* normalizeCost(stats.avgCost)
normalizeCost(stats) ==
  Max(0, 1000 - stats.totalCost
                  \div (stats.totalRequests * (costRange \div 1000)))

\* adjustWeights(): the new adjustmentFactor of one dimension
adjustedFactor(stats) ==
  IF stats.totalRequests < minDimensionRequests THEN stats.adjustmentFactor
  ELSE LET successScore ==
             (stats.successfulRequests * 1000) \div stats.totalRequests
           performanceScore ==
             (latencyWeight * normalizeLatency(stats)
                + costWeight * normalizeCost(stats)
                + successWeight * successScore) \div 1000
           targetFactor ==
             minAdjustment
               + (performanceScore * (maxAdjustment - minAdjustment)) \div 1000
       IN (smoothingKeep * stats.adjustmentFactor
             + smoothingTake * targetFactor) \div 1000

\* adjustWeights(): one dimension's stats with the new adjustmentFactor and
\* currentWeight
adjustedStats(stats) ==
  IF stats.totalRequests < minDimensionRequests THEN stats
  ELSE LET factor == adjustedFactor(stats)
       IN [stats EXCEPT !.adjustmentFactor = factor,
                        !.currentWeight = (stats.baseWeight * factor) \div 1000]

\* adjustWeights()
adjustWeights(a) ==
  [a EXCEPT !.lastAdjustment = a.requestCount,
            !.dimensionStats =
               [d \in Dimensions |-> adjustedStats(a.dimensionStats[d])]]

\* recordFeedback adjusting only once more than adjustmentInterval requests
\* have passed
recordFeedback_Late(a, feedback) ==
  LET a1 == [a EXCEPT !.requestCount = @ + 1,
                      !.dimensionStats =
                         updateSignalStats(@, feedback.dimensionSignals,
                                           feedback)]
  IN IF a1.requestCount - a1.lastAdjustment > adjustmentInterval
     THEN adjustWeights(a1) ELSE a1

\* AdaptiveWeightManager.recordFeedback(feedback)
recordFeedback(a, feedback) ==
  LET a1 == [a EXCEPT !.requestCount = @ + 1,
                      !.dimensionStats =
                         updateSignalStats(@, feedback.dimensionSignals,
                                           feedback)]
  IN IF a1.requestCount - a1.lastAdjustment >= adjustmentInterval
     THEN adjustWeights(a1) ELSE a1

\* getWeight(dimension): stats.currentWeight
currentWeight(a, d) == a.dimensionStats[d].currentWeight

\* the sum of Object.values(getAllWeights())
sumWeights(a) ==
  currentWeight(a, "tokenCount") + currentWeight(a, "codePresence")
    + currentWeight(a, "reasoningMarkers") + currentWeight(a, "technicalTerms")
    + currentWeight(a, "creativeMarkers") + currentWeight(a, "simpleIndicators")
    + currentWeight(a, "multiStepPatterns")
    + currentWeight(a, "questionComplexity")
    + currentWeight(a, "imperativeVerbs") + currentWeight(a, "constraintCount")
    + currentWeight(a, "outputFormat") + currentWeight(a, "referenceComplexity")
    + currentWeight(a, "negationComplexity")
    + currentWeight(a, "domainSpecificity") + currentWeight(a, "agenticTask")

\* Object.values(getAllWeights()).reduce((a, b) => a + b, 0) / length
weightFactor(a) == sumWeights(a) \div Cardinality(Dimensions)

-----------------------------------------------------------------------------
(* The router (route, recordRoutingFeedback).  A decision carries model,     *)
(* tier, confidence, the tags of its reasoning string and _meta; the cost    *)
(* estimate of selectModel is not carried.                                   *)

maxTokensForceComplex == 100000
ambiguousDefaultTier == "MEDIUM"
structuredOutputMinTier == "MEDIUM"
autoAgenticThreshold == 75
forcedConfidence == 95
ambiguousConfidence == 50
cachedConfidenceFloor == 70

\* config.tiers: every tier served by "primary", then "fallback"
tiers ==
  [t \in {"SIMPLE", "MEDIUM", "COMPLEX", "REASONING"} |->
     [primary |-> "primary", fallback |-> <<"fallback">>]]

\* config.agenticTiers: every tier served by "fallback", then "primary"
agenticTiers ==
  [t \in {"SIMPLE", "MEDIUM", "COMPLEX", "REASONING"} |->
     [primary |-> "fallback", fallback |-> <<"primary">>]]

\* a fallback array passed where a model name is expected: the tracker has
\* no record under it
FallbackArray == "[fallback array]"

\* Object.values(tierConfigs[tier] || {}): the primary's name, then the
\* fallback array itself
objectValues(tierConfig) == <<tierConfig.primary, FallbackArray>>

\* the options of a call of route; agenticMode, ambiguousDefaultTier and
\* structuredOutputMinTier are those of options.config.overrides
DefaultOptions ==
  [enableCache |-> TRUE, enableAdaptive |-> TRUE,
   enableHealthTracking |-> TRUE, agenticMode |-> FALSE, sessionId |-> Null,
   ambiguousDefaultTier |-> ambiguousDefaultTier,
   structuredOutputMinTier |-> structuredOutputMinTier]

\* decision._meta === undefined
NoMeta == [exists |-> FALSE, fingerprint |-> Null, signals |-> << >>]

\* selectModel(tier, confidence, method, reasoning, tierConfigs, ...): the
\* decision names the primary of the tier
selectModel(tier, confidence, method, reasoning, tierConfigs) ==
  [model |-> tierConfigs[tier].primary, tier |-> tier,
   confidence |-> confidence, method |-> method, reasoning |-> reasoning,
   meta |-> NoMeta]

\* no decision awaits feedback
NoRouted ==
  [exists |-> FALSE, sessionId |-> Null,
   decision |-> [model |-> Null, tier |-> Null, confidence |-> 0,
                 method |-> Null, reasoning |-> << >>, meta |-> NoMeta]]

\* the callers that may have a request under way at the same time
Callers == {"caller-1", "caller-2"}

\* no request under way, no feedback call completed
NoInflight ==
  [decisions |-> [c \in Callers |-> NoRouted],
   completed |-> [m \in Models |-> 0]]

\* route, first part: the cache lookup and the rule classification
routeClassify(req, options, c, h, t) ==
  [cached |-> IF options.enableCache THEN cacheGet(c, req.fingerprint, t)
              ELSE NoCached,
   cache |-> IF options.enableCache THEN cacheGetState(c, req.fingerprint, t)
             ELSE c,
   ruleResult |-> classifyByRules(req, h)]

\* route, second part: the adaptive adjustment and the cache update
routeAdjust(req, options, classified, a, t) ==
  LET cached == classified.cached
      ruleResult == classified.ruleResult
      adapt == options.enableAdaptive /\ ruleResult.tier # Null
      adjustedScore == IF adapt THEN ruleResult.score * weightFactor(a)
                       ELSE ruleResult.score * 1000
      adjustedConfidence ==
        IF /\ adapt
           /\ cached.exists
           /\ shouldUseCachedTier(cached, adjustedScore, ruleResult.tier)
           /\ cached.result.tier # Null
        THEN Max(cached.result.confidence, cachedConfidenceFloor)
        ELSE ruleResult.confidence
  IN [cached |-> cached, ruleResult |-> ruleResult,
      adjustedConfidence |-> adjustedConfidence,
      cache |-> IF options.enableCache
                THEN cacheSet(classified.cache, req.fingerprint,
                              [ruleResult EXCEPT
                                 !.score = adjustedScore,
                                 !.confidence = adjustedConfidence],
                              adjustedScore, t)
                ELSE classified.cache]

\* the structured-output minimum never applied
afterStructuredOutput_Never(req, options, tier) == tier

\* the tier after the structured-output minimum is applied to tier
afterStructuredOutput(req, options, tier) ==
  IF req.structured
       /\ tierRank(tier) < tierRank(options.structuredOutputMinTier)
  THEN options.structuredOutputMinTier ELSE tier

\* the large-context override never firing
exceedsContext_Never(req) == FALSE

\* estimatedTokens > config.overrides.maxTokensForceComplex
exceedsContext(req) == req.estimatedTokens > maxTokensForceComplex

\* route, last part: the overrides, the tier, the health check and the
\* decision
routeSelect(req, options, adjusted, hr, t) ==
  LET cached == adjusted.cached
      ruleResult == adjusted.ruleResult
      isAutoAgentic == ruleResult.agenticScore * 10 >= autoAgenticThreshold
      isExplicitAgentic == options.agenticMode
      \* config.agenticTiers is configured
      useAgenticTiers == isAutoAgentic \/ isExplicitAgentic
      tierConfigs == IF useAgenticTiers THEN agenticTiers ELSE tiers
      useCached == cached.exists /\ cached.result.tier # Null
                     /\ options.enableCache
      tier0 == IF useCached THEN cached.result.tier
               ELSE IF ruleResult.tier # Null THEN ruleResult.tier
               ELSE options.ambiguousDefaultTier
      confidence == IF useCached \/ ruleResult.tier # Null
                    THEN adjusted.adjustedConfidence ELSE ambiguousConfidence
      tier == afterStructuredOutput(req, options, tier0)
      upgraded == tier # tier0
      tierModels == objectValues(tierConfigs[tier])
      bestModel == getBestModel(hr, tierModels, t)
      healthOverride == /\ options.enableHealthTracking
                        /\ bestModel # Null
                        /\ bestModel # tierConfigs[tier].primary
      reasoning ==
        (IF useCached THEN <<"cached">>
         ELSE IF ruleResult.tier # Null THEN << >> ELSE <<"ambiguous">>)
        \o (IF upgraded THEN <<"upgraded">> ELSE << >>)
        \o (IF isAutoAgentic THEN <<"auto-agentic">>
            ELSE IF isExplicitAgentic THEN <<"agentic">> ELSE << >>)
        \o (IF healthOverride THEN <<"health-override">> ELSE << >>)
  IN IF exceedsContext(req)
     THEN [decision |->
             selectModel("COMPLEX", forcedConfidence, "rules",
                         <<"exceeds">> \o (IF useAgenticTiers
                                           THEN <<"agentic">> ELSE << >>),
                         tierConfigs),
           cache |-> adjusted.cache, health |-> hr]
     ELSE [decision |->
             [selectModel(tier, confidence, "rules", reasoning, tierConfigs)
                EXCEPT !.meta = [exists |-> TRUE,
                                 fingerprint |-> req.fingerprint,
                                 signals |-> ruleResult.signals]],
           cache |-> adjusted.cache,
           health |-> IF options.enableHealthTracking
                      THEN recordsAfterFilter(hr, tierModels, t) ELSE hr]

\* route(prompt, systemPrompt, maxOutputTokens, options): the decision
\* returned and the cache and health records it leaves
route(req, options, c, a, h, hr, t) ==
  CHOOSE outcome \in
    {routeSelect(req, options, adjusted, hr, t) :
       adjusted \in
         {routeAdjust(req, options, classified, a, t) :
            classified \in {routeClassify(req, options, c, h, t)}}} : TRUE

\* what the front-end observed of a request: cost in millionths of a dollar
Feedbacks ==
  {[success |-> TRUE, latencyMs |-> 100, cost |-> 1000, inputTokens |-> 100,
    outputTokens |-> 200, errorType |-> NoError],
   [success |-> FALSE, latencyMs |-> 100, cost |-> 0, inputTokens |-> 100,
    outputTokens |-> 0, errorType |-> "timeout"],
   [success |-> FALSE, latencyMs |-> 40000, cost |-> 0, inputTokens |-> 100,
    outputTokens |-> 0, errorType |-> NoError]}

\* recordRoutingFeedback: the RoutingFeedback handed to the adaptive manager
routingFeedback(decision, feedback) ==
  [dimensionSignals |-> IF decision.meta.exists THEN decision.meta.signals
                        ELSE << >>,
   tier |-> decision.tier, model |-> decision.model,
   latencyMs |-> feedback.latencyMs, cost |-> feedback.cost,
   success |-> feedback.success, errorType |-> feedback.errorType,
   inputTokens |-> feedback.inputTokens,
   outputTokens |-> feedback.outputTokens]

-----------------------------------------------------------------------------
(* Health tracker: the calls *)

NoRet == [op |-> "none", arg |-> Null, value |-> Null]

\* avgLatencyMs after k requests of latency lat
RECURSIVE WarmAvg(_, _)
WarmAvg(k, lat) ==
  IF k = 0 THEN 0 ELSE (7 * WarmAvg(k - 1, lat) + 3 * lat * 1000) \div 10

\* the tracker's state for a model after k successful requests of latency
\* lat <= latencyThresholdMs, k <= latencyWindow (what k calls of updateHealth
\* leave; WarmRecordIsReached checks it against updateHealthRecord)
WarmRecord(k, lat) ==
  IF k = 0 THEN [rec |-> NoRecord, hist |-> << >>]
  ELSE [rec  |-> [NoRecord EXCEPT !.exists = TRUE, !.totalRequests = k,
                                  !.successfulRequests = k,
                                  !.successRate = <<k, k>>,
                                  !.avgLatencyMs = WarmAvg(k, lat),
                                  !.p95LatencyMs = lat],
        hist |-> [i \in 1..k |-> lat]]

\* healthTracker.updateHealth({model, success, latencyMs, errorType,
\*                             timestamp: Date.now(), tier})
UpdateHealthCall(m, success, latencyMs, errorType) ==
  /\ healthRecords' =
       [healthRecords EXCEPT
          ![m] = updateHealthRecord(@, latencyHistory[m], success, latencyMs,
                                    errorType, now)]
  /\ latencyHistory' =
       [latencyHistory EXCEPT ![m] = updateHealthHistory(@, latencyMs)]

\* callers' updateHealth on the models of M
UpdateHealthOf(M, maxSteps) ==
  /\ steps < maxSteps
  /\ \E m \in M, success \in BOOLEAN, latencyMs \in Latencies,
        errorType \in ErrorTypes \cup {NoError} :
       /\ success => errorType = NoError
       /\ UpdateHealthCall(m, success, latencyMs, errorType)
  /\ ret' = NoRet
  /\ steps' = steps + 1
  /\ UNCHANGED <<now, sessionVars, classifierVars, routerVars>>

\* healthTracker.isAvailable(model); its value is
\* isAvailableResult(healthRecords[model], now)
IsAvailableOf(M) ==
  /\ \E m \in M :
       healthRecords' = [healthRecords EXCEPT ![m] = isAvailableRecord(@, now)]
  /\ ret' = NoRet
  /\ UNCHANGED <<now, latencyHistory, steps, sessionVars, classifierVars,
                 routerVars>>

CandidateLists ==
  {<<"primary", "fallback">>, <<"fallback", "primary">>, <<"primary">>,
   <<"fallback">>}

\* healthTracker.getBestModel(tier, candidates)
GetBestModel ==
  /\ \E candidates \in CandidateLists :
       /\ healthRecords' = recordsAfterFilter(healthRecords, candidates, now)
       /\ ret' = [op |-> "getBestModel", arg |-> candidates,
                  value |-> getBestModel(healthRecords, candidates, now)]
  /\ UNCHANGED <<now, latencyHistory, steps, sessionVars, classifierVars,
                 routerVars>>

\* healthTracker.forceCooldown(model, durationMs)
ForceCooldownOf(M, maxSteps) ==
  /\ steps < maxSteps
  /\ \E m \in M, durationMs \in ForceDurations :
       healthRecords' =
         [healthRecords EXCEPT ![m] = forceCooldown(@, durationMs, now)]
  /\ ret' = NoRet
  /\ steps' = steps + 1
  /\ UNCHANGED <<now, latencyHistory, sessionVars, classifierVars, routerVars>>

\* the passage of time
Tick ==
  /\ now + TickStep <= MaxTime
  /\ now' = now + TickStep
  /\ ret' = NoRet
  /\ UNCHANGED <<healthVars, sessionVars, classifierVars, routerVars, steps>>

\* no call made yet
InitClock ==
  /\ now = 0
  /\ steps = 0
  /\ ret = NoRet

\* new ModelHealthTracker(), then w successful requests served by primary
InitTracker(W) ==
  \E w \in W :
    /\ healthRecords =
         [m \in Models |-> WarmRecord(IF m = "primary" THEN w ELSE 0, 100).rec]
    /\ latencyHistory =
         [m \in Models |-> WarmRecord(IF m = "primary" THEN w ELSE 0, 100).hist]

\* new SessionStore({enabled})
InitStore(E) ==
  /\ sessionEnabled \in E
  /\ sessions = NoSessions

\* rules.ts: const scoreHistory = new Map()
InitClassifier == scoreHistory = << >>

\* the global cache and adaptive manager as created on first use; no decision
\* made yet
InitRouter ==
  /\ scoreCache = EmptyCache
  /\ adaptive = NoAdaptive
  /\ routed = NoRouted
  /\ inflight = NoInflight

(* The tracker with two models *)

UpdateHealth == UpdateHealthOf(Models, MaxTrackerSteps)
IsAvailable == IsAvailableOf(Models)
ForceCooldown == ForceCooldownOf(Models, MaxTrackerSteps)

InitHealth ==
  /\ InitClock
  /\ InitTracker({0})
  /\ InitStore({FALSE})
  /\ InitClassifier
  /\ InitRouter

NextHealth ==
  \/ UpdateHealth
  \/ IsAvailable
  \/ GetBestModel
  \/ ForceCooldown
  \/ Tick

SpecHealth == InitHealth /\ [][NextHealth]_vars

(* One model with a history of successes: cooldown and recovery *)

UpdatePrimary == UpdateHealthOf({"primary"}, MaxHealthSteps)
CheckPrimary == IsAvailableOf({"primary"})
ForcePrimary == ForceCooldownOf({"primary"}, MaxHealthSteps)

InitCooldown ==
  /\ InitClock
  /\ InitTracker(Warmups)
  /\ InitStore({FALSE})
  /\ InitClassifier
  /\ InitRouter

NextCooldown ==
  \/ UpdatePrimary
  \/ CheckPrimary
  \/ ForcePrimary
  \/ Tick

SpecCooldown == InitCooldown /\ [][NextCooldown]_vars

-----------------------------------------------------------------------------
(* Health tracker: properties *)

\* model m is in a cooldown entered through maxConsecutiveErrors consecutive
\* failures, and its deadline has not been reached
InErrorCooldown(m) ==
  /\ healthRecords[m].status = "cooldown"
  /\ healthRecords[m].cooldownReason = "errors"
  /\ now < healthRecords[m].cooldownUntil

\* this step is an updateHealth on m
UpdatesModel(m) ==
  healthRecords'[m].totalRequests = healthRecords[m].totalRequests + 1

\* this step is an updateHealth on m that leaves its lifetime success rate at
\* recoveryThreshold or more over at least recoveryRequests requests
RecoveringUpdate(m) ==
  /\ UpdatesModel(m)
  /\ RateAtLeast(healthRecords'[m], recoveryThreshold)
  /\ healthRecords'[m].totalRequests >= recoveryRequests

CooldownExpired(m) ==
  /\ healthRecords[m].status = "cooldown"
  /\ now > healthRecords[m].cooldownUntil

\* this step is a successful updateHealth on m
SuccessfulUpdate(m) ==
  /\ UpdatesModel(m)
  /\ healthRecords'[m].successfulRequests =
       healthRecords[m].successfulRequests + 1

\* C2 as stated: the first successful updateHealth after the cooldown has
\* expired leaves the model 'degraded' (never 'healthy'), whatever its lifetime
\* success rate.
C2_DegradedAfterExpiry ==
  [][\A m \in Models :
       CooldownExpired(m) /\ SuccessfulUpdate(m)
         => healthRecords'[m].status = "degraded"]_vars

\* C3: the model returned by getBestModel is never in cooldown with the
\* deadline still ahead.
C3_BestNotInCooldown ==
  ret.op = "getBestModel" /\ ret.value # Null
    => ~(/\ getHealth(healthRecords, ret.value).status = "cooldown"
         /\ now < getHealth(healthRecords, ret.value).cooldownUntil)

\* C3 witness: getBestModel was asked for [primary, fallback] while primary
\* was in an active cooldown, and returned fallback.
C3_Witness ==
  /\ ret.op = "getBestModel"
  /\ ret.arg = <<"primary", "fallback">>
  /\ ret.value = "fallback"
  /\ healthRecords["primary"].status = "cooldown"
  /\ now < healthRecords["primary"].cooldownUntil

\* this step is a failed updateHealth on m whose errorType is 'auth' or
\* 'payment_required'
ClientSideFailure(m) ==
  /\ UpdatesModel(m)
  /\ \E e \in {"auth", "payment_required"} :
       healthRecords'[m].errorTypes[e] = healthRecords[m].errorTypes[e] + 1

\* C9 as stated: a failure of type 'auth' or 'payment_required' reported
\* through updateHealth never puts the model into cooldown.
C9_AuthNeverCoolsDown ==
  [][\A m \in Models :
       ClientSideFailure(m) /\ healthRecords[m].status # "cooldown"
         => healthRecords'[m].status # "cooldown"]_vars

\* this step is a failed updateHealth on m
FailedUpdate(m) ==
  /\ UpdatesModel(m)
  /\ healthRecords'[m].successfulRequests = healthRecords[m].successfulRequests

\* C21 as stated: every failed updateHealth increases consecutiveErrors by 1
\* and every successful one resets it to 0; an update outside an active
\* cooldown that brings it to maxConsecutiveErrors sets status 'cooldown'
\* with cooldownUntil = timestamp + cooldownDurationMs.
C21_ConsecutiveErrorsCount ==
  [][\A m \in Models :
       /\ FailedUpdate(m)
            => healthRecords'[m].consecutiveErrors
                 = healthRecords[m].consecutiveErrors + 1
       /\ SuccessfulUpdate(m) => healthRecords'[m].consecutiveErrors = 0
       /\ FailedUpdate(m) /\ healthRecords[m].cooldownUntil <= now
             /\ healthRecords[m].consecutiveErrors + 1 >= maxConsecutiveErrors
            => /\ healthRecords'[m].status = "cooldown"
               /\ healthRecords'[m].cooldownUntil = now + cooldownDurationMs
    ]_vars

-----------------------------------------------------------------------------
(* Session store: the calls *)

MaxSessionSteps == 5
MaxSessionTime == 2000000
SessionTickStep == 1000000

\* callers' setSession(sessionId, model, tier)
SetSessionWithin(maxSteps) ==
  /\ steps < maxSteps
  /\ \E s \in SessionIds, model \in Models, tier \in SessionTiers :
       /\ sessions' =
            [sessions EXCEPT
               ![s] = setSession(sessionEnabled, @, model, tier, now)]
       /\ ret' = [op |-> "setSession", arg |-> <<s, model, tier>>,
                  value |-> Null]
  /\ steps' = steps + 1
  /\ UNCHANGED <<now, healthVars, sessionEnabled, classifierVars, routerVars>>

\* sessionStore.setSession(sessionId, model, tier)
SetSession == SetSessionWithin(MaxSessionSteps)

\* sessionStore.getSession(sessionId); the value is the model of the entry
\* returned
GetSession ==
  /\ \E s \in SessionIds :
       /\ sessions' =
            [sessions EXCEPT ![s] = getSessionEntry(sessionEnabled, @, now)]
       /\ ret' = [op |-> "getSession", arg |-> <<s>>,
                  value |-> getSession(sessionEnabled, sessions[s], now).model]
  /\ UNCHANGED <<now, healthVars, sessionEnabled, classifierVars, routerVars,
                 steps>>

\* callers' recordResult(sessionId, result) with the results R
RecordResultOf(R, maxSteps) ==
  /\ steps < maxSteps
  /\ \E s \in SessionIds, result \in R :
       /\ sessions' =
            [sessions EXCEPT
               ![s] = recordResult(sessionEnabled, @, healthRecords, result,
                                   now)]
       /\ healthRecords' =
            recordResultHealth(sessionEnabled, sessions[s], healthRecords,
                               result, now)
       /\ ret' = [op |-> "recordResult",
                  arg |-> <<s, IF result.success THEN "success" ELSE "failure",
                            result.error>>,
                  value |-> Null]
  /\ steps' = steps + 1
  /\ UNCHANGED <<now, latencyHistory, sessionEnabled, classifierVars,
                 routerVars>>

\* sessionStore.recordResult(sessionId, result)
RecordResult == RecordResultOf(SessionResults, MaxSessionSteps)

\* sessionStore.touchSession(sessionId)
TouchSession ==
  /\ steps < MaxSessionSteps
  /\ \E s \in SessionIds :
       /\ sessions' =
            [sessions EXCEPT ![s] = touchSession(sessionEnabled, @, now)]
       /\ ret' = [op |-> "touchSession", arg |-> <<s>>, value |-> Null]
  /\ steps' = steps + 1
  /\ UNCHANGED <<now, healthVars, sessionEnabled, classifierVars, routerVars>>

\* sessionStore.clearSession(sessionId)
ClearSession ==
  /\ \E s \in SessionIds :
       /\ sessions' = [sessions EXCEPT ![s] = NoSession]
       /\ ret' = [op |-> "clearSession", arg |-> <<s>>, value |-> Null]
  /\ UNCHANGED <<now, healthVars, sessionEnabled, classifierVars, routerVars,
                 steps>>

\* the passage of time, in steps comparable to the session timeout
SessionTick ==
  /\ now + SessionTickStep <= MaxSessionTime
  /\ now' = now + SessionTickStep
  /\ ret' = NoRet
  /\ UNCHANGED <<healthVars, sessionVars, classifierVars, routerVars, steps>>

InitSession ==
  /\ InitClock
  /\ InitTracker({0})
  /\ InitStore(BOOLEAN)
  /\ InitClassifier
  /\ InitRouter

NextSession ==
  \/ SetSession
  \/ GetSession
  \/ RecordResult
  \/ TouchSession
  \/ ClearSession
  \/ SessionTick

SpecSession == InitSession /\ [][NextSession]_vars

-----------------------------------------------------------------------------
(* A session through a long run of results *)

MaxErrorSteps == 7

\* failures with two kinds of error string and a failure without one
ErrorResults ==
  { [success |-> FALSE, latencyMs |-> 100, inputTokens |-> 50,
     outputTokens |-> 0, error |-> "timeout"],
    [success |-> FALSE, latencyMs |-> 100, inputTokens |-> 50,
     outputTokens |-> 0, error |-> "rate_limit"],
    [success |-> FALSE, latencyMs |-> 100, inputTokens |-> 60,
     outputTokens |-> 0, error |-> NoError] }

RecordResultErrors == RecordResultOf(ErrorResults, MaxErrorSteps)

\* the store after setSession(sessionId, "primary", "MEDIUM") for every
\* session id
InitErrors ==
  /\ InitClock
  /\ InitTracker({0})
  /\ sessionEnabled = TRUE
  /\ sessions =
       [s \in SessionIds |->
          setSession(TRUE, NoSession, "primary", "MEDIUM", 0)]
  /\ InitClassifier
  /\ InitRouter

NextErrors ==
  \/ RecordResultErrors
  \/ SessionTick

SpecErrors == InitErrors /\ [][NextErrors]_vars

-----------------------------------------------------------------------------
(* Session expiry: getSession and the cleanup timer *)

MaxExpirySteps == 3
ExpiryTickStep == timeoutMs \div 2
MaxExpiryTime == 4 * (timeoutMs \div 2)

\* SessionStore.cleanup(): the sessions it leaves
cleanupSessions(ss, t) ==
  [s \in SessionIds |->
     IF ss[s].exists /\ t - ss[s].lastUsedAt > timeoutMs THEN NoSession
     ELSE ss[s]]

\* the callback of the cleanup timer, which the constructor starts only when
\* the store is enabled
Cleanup ==
  /\ sessionEnabled
  /\ sessions' = cleanupSessions(sessions, now)
  /\ ret' = [op |-> "cleanup", arg |-> Null, value |-> Null]
  /\ UNCHANGED <<now, healthVars, sessionEnabled, classifierVars, routerVars,
                 steps>>

SetSessionExpiry == SetSessionWithin(MaxExpirySteps)

ExpiryTick ==
  /\ now + ExpiryTickStep <= MaxExpiryTime
  /\ now' = now + ExpiryTickStep
  /\ ret' = NoRet
  /\ UNCHANGED <<healthVars, sessionVars, classifierVars, routerVars, steps>>

NextExpiry ==
  \/ SetSessionExpiry
  \/ GetSession
  \/ TouchSession
  \/ ClearSession
  \/ Cleanup
  \/ ExpiryTick

SpecExpiry == InitSession /\ [][NextExpiry]_vars

-----------------------------------------------------------------------------
(* Session store: properties *)

\* this step is a failed recordResult on session s
FailedResult(s) ==
  /\ ret'.op = "recordResult"
  /\ ret'.arg[1] = s
  /\ ret'.arg[2] = "failure"
  /\ sessionEnabled
  /\ sessions[s].exists

\* C4 as stated: the failed recordResult that brings a session pinned to M to
\* degradationThreshold consecutive failures leaves isDegraded(sessionId) true
\* and getDegradationInfo(sessionId).originalModel equal to M.
C4_DegradedAtThreshold ==
  [][\A s \in SessionIds :
       /\ FailedResult(s)
       /\ ~isDegraded(sessions[s])
       /\ sessions[s].metrics.consecutiveFailures + 1 = degradationThreshold
       => /\ isDegraded(sessions'[s])
          /\ getDegradationInfo(sessions'[s]).originalModel
               = sessions[s].model]_vars

\* C5 as stated (first part): a session's degradation.originalModel is set
\* only while degradation.isDegraded is true.
C5_OriginalOnlyWhileDegraded ==
  \A s \in SessionIds :
    sessions[s].exists /\ sessions[s].degradation.originalModel # Null
      => sessions[s].degradation.isDegraded

-----------------------------------------------------------------------------
(* Rule classifier: the calls *)

MaxClassifySteps == 4

\* classifyByRules(prompt, systemPrompt, estimatedTokens, config.scoring,
\*                 fingerprint)
Classify ==
  /\ steps < MaxClassifySteps
  /\ \E req \in Requests, cleanup \in BOOLEAN :
       /\ scoreHistory' = classifyByRulesHistory(req, scoreHistory, cleanup)
       /\ ret' = [op |-> "classifyByRules", arg |-> <<req.id>>,
                  value |-> classifyByRules(req, scoreHistory)]
  /\ steps' = steps + 1
  /\ UNCHANGED <<now, healthVars, sessionVars, routerVars>>

InitClassify ==
  /\ InitClock
  /\ InitTracker({0})
  /\ InitStore({FALSE})
  /\ InitClassifier
  /\ InitRouter

NextClassify == Classify

SpecClassify == InitClassify /\ [][NextClassify]_vars

(* The reasoning override over a wide range of requests of one fingerprint *)

MaxOverrideSteps == 2

\* requests of the fingerprint "fpR": a system prompt with a common head of
\* 50 characters, a prompt of 151 to 196 characters with a common head and
\* tail; keywords sit in the middle of the prompt and the rest of the system
\* prompt
OverrideRequests ==
  {[PlainRequest EXCEPT
      !.id = "override", !.fingerprint = "fpR", !.estimatedTokens = tokens,
      !.matches.reasoning = reasoning, !.systemReasoning = system,
      !.matches.technical = technical, !.matches.code = code,
      !.matches.simple = simple, !.multiStepHits = multi] :
     tokens \in {100, 600}, reasoning \in 0..3, system \in {0, 2},
     technical \in {0, 4}, code \in {0, 2}, simple \in {0, 1},
     multi \in {0, 1}}

\* classifyByRules on one of OverrideRequests
ClassifyOverride ==
  /\ steps < MaxOverrideSteps
  /\ \E req \in OverrideRequests, cleanup \in BOOLEAN :
       /\ scoreHistory' = classifyByRulesHistory(req, scoreHistory, cleanup)
       /\ ret' = [op |-> "classifyByRules", arg |-> req,
                  value |-> classifyByRules(req, scoreHistory)]
  /\ steps' = steps + 1
  /\ UNCHANGED <<now, healthVars, sessionVars, routerVars>>

NextOverride == ClassifyOverride

SpecOverride == InitClassify /\ [][NextOverride]_vars

-----------------------------------------------------------------------------
(* Rule classifier: properties *)

\* the last call classified a request with the reasoning override
OverrideSignalled ==
  \E i \in 1..Len(ret.value.signals) :
    ret.value.signals[i] = "reasoning-override"

\* C11: a request whose user prompt matches at least 2 reasoning keywords is
\* classified REASONING with confidence >= 0.85 whatever its other
\* dimensions, its score and the history of its fingerprint; with fewer than
\* 2 in the user prompt the override does not fire, whatever the system
\* prompt holds.
C11_ReasoningOverride ==
  ret.op = "classifyByRules"
    => IF ret.arg.matches.reasoning >= reasoningOverrideMatches
       THEN /\ ret.value.tier = "REASONING"
            /\ ret.value.confidence >= reasoningConfidenceFloor
            /\ OverrideSignalled
       ELSE ~OverrideSignalled

\* C11 witness: the override fired on a score below the REASONING boundary,
\* after another call had left a history for the fingerprint
C11_Witness ==
  /\ ret.op = "classifyByRules"
  /\ steps = 2
  /\ ret.arg.matches.reasoning >= reasoningOverrideMatches
  /\ ret.value.score < complexReasoning
  /\ ret.value.tier = "REASONING"


\* this step is classifyByRules(req) with the fingerprint of req
Classifies(req) ==
  /\ ret'.op = "classifyByRules"
  /\ ret'.arg = <<req.id>>
  /\ steps' = steps + 1

\* C10 as stated: with a prior tier T recorded for the fingerprint and no
\* reasoning override, a score whose natural tier differs from T and that
\* lies within fuzzyWidth of the nearest boundary is classified as T.
C10_FuzzyKeepsPriorTier ==
  [][\A req \in Requests :
       LET score == weightedSum(scoreDimensions(req))
           T == getScoreHistory(scoreHistory, req.fingerprint).lastTier
       IN /\ Classifies(req)
          /\ T # Null
          /\ req.matches.reasoning < reasoningOverrideMatches
          /\ naturalTier(score) # T
          /\ naturalDistance(score) < fuzzyWidth
          => ret'.value.tier = T]_vars


-----------------------------------------------------------------------------
(* The router: the calls *)

MaxRouteSteps == 3
MaxRouteTime == 100000000
RouteTickStep == 100000000
AdaptiveWarmups == {0, 9}
RouterWarmups == {0, 27}

\* the requests and options route is called with
RouteRequests ==
  {req \in Requests :
     req.id \in {"medium", "complex-edge", "simple-json", "agentic", "huge"}}

RouteOptions ==
  {DefaultOptions,
   [DefaultOptions EXCEPT !.enableCache = FALSE],
   [DefaultOptions EXCEPT !.enableAdaptive = FALSE],
   [DefaultOptions EXCEPT !.enableHealthTracking = FALSE],
   [DefaultOptions EXCEPT !.agenticMode = TRUE]}
    \cup {[DefaultOptions EXCEPT !.sessionId = s] : s \in SessionIds}

\* the manager after k successful requests whose only mapped signal was
\* "technical", k < adjustmentInterval
WarmAdaptive(k) ==
  [NoAdaptive EXCEPT
     !.requestCount = k,
     !.dimensionStats["technicalTerms"] =
        [NoDimensionStats EXCEPT !.totalRequests = k,
                                 !.successfulRequests = k,
                                 !.totalLatency = k * 100,
                                 !.totalCost = k * 1000]]

\* callers' route(prompt, systemPrompt, maxOutputTokens, options) with the
\* requests R and the options O
RouteOf(R, O, maxSteps) ==
  /\ steps < maxSteps
  /\ \E req \in R, options \in O :
       \E r \in {route(req, options, scoreCache, adaptive, scoreHistory,
                        healthRecords, now)} :
          /\ scoreCache' = r.cache
          /\ \E cleanup \in BOOLEAN :
               scoreHistory' =
                 classifyByRulesHistory(req, scoreHistory, cleanup)
          /\ healthRecords' = r.health
          /\ routed' = [exists |-> TRUE, sessionId |-> options.sessionId,
                        decision |-> r.decision]
          /\ ret' = [op |-> "route",
                     arg |-> [request |-> req, options |-> options],
                     value |-> r.decision]
  /\ steps' = steps + 1
  /\ UNCHANGED <<now, latencyHistory, sessionVars, adaptive, inflight>>

\* route(prompt, systemPrompt, maxOutputTokens, options)
Route == RouteOf(RouteRequests, RouteOptions, MaxRouteSteps)

\* recordRoutingFeedback(decision, feedback) for the decision awaiting it
RecordRoutingFeedback ==
  /\ steps < MaxRouteSteps
  /\ routed.exists
  /\ \E feedback \in Feedbacks :
       /\ adaptive' =
            recordFeedback(adaptive,
                           routingFeedback(routed.decision, feedback))
       /\ UpdateHealthCall(routed.decision.model, feedback.success,
                           feedback.latencyMs, feedback.errorType)
       /\ ret' = [op |-> "recordRoutingFeedback",
                  arg |-> [sessionId |-> routed.sessionId,
                           feedback |-> feedback],
                  value |-> Null]
  /\ routed' = NoRouted
  /\ steps' = steps + 1
  /\ UNCHANGED <<now, sessionVars, classifierVars, scoreCache, inflight>>

\* the front-end pins a session
PinSession == SetSessionWithin(MaxRouteSteps)

\* an operator takes the primary out of service
CooldownPrimary == ForceCooldownOf({"primary"}, MaxRouteSteps)

\* the passage of time, in steps longer than the cache's ttlMs
RouteTick ==
  /\ now + RouteTickStep <= MaxRouteTime
  /\ now' = now + RouteTickStep
  /\ ret' = NoRet
  /\ UNCHANGED <<healthVars, sessionVars, classifierVars, routerVars, steps>>

InitRoute ==
  /\ InitClock
  /\ InitTracker(RouterWarmups)
  /\ InitStore({TRUE})
  /\ InitClassifier
  /\ scoreCache = EmptyCache
  /\ \E k \in AdaptiveWarmups : adaptive = WarmAdaptive(k)
  /\ routed = NoRouted
  /\ inflight = NoInflight

NextRoute ==
  \/ Route
  \/ RecordRoutingFeedback
  \/ PinSession
  \/ CooldownPrimary
  \/ RouteTick

SpecRoute == InitRoute /\ [][NextRoute]_vars

(* Repeated routing of the requests of one fingerprint *)

MaxRepeatSteps == 4

RepeatRequests ==
  {req \in Requests :
     req.id \in {"medium", "complex-edge", "simple-json", "json-edge",
                 "huge"}}

RepeatOptions ==
  {DefaultOptions,
   [DefaultOptions EXCEPT !.enableHealthTracking = FALSE],
   [DefaultOptions EXCEPT !.ambiguousDefaultTier = "SIMPLE",
                          !.structuredOutputMinTier = "COMPLEX"]}

RouteRepeat == RouteOf(RepeatRequests, RepeatOptions, MaxRepeatSteps)

NextRepeat == RouteRepeat

SpecRepeat == InitRoute /\ [][NextRepeat]_vars

-----------------------------------------------------------------------------
(* Score cache: the calls *)

MaxCacheSteps == 5
CacheTickStep == ttlMs \div 2
MaxCacheTime == 3 * (ttlMs \div 2)
CacheSizes == {1, 2}

\* the scoring results set is called with: tier, confidence in percent and
\* score in thousandths
CacheResults ==
  {[NoResult EXCEPT !.tier = "SIMPLE", !.confidence = 90, !.score = -100],
   [NoResult EXCEPT !.tier = "MEDIUM", !.confidence = 60, !.score = 20],
   [NoResult EXCEPT !.tier = Null, !.confidence = 50, !.score = 5]}

\* callers' cache.set(prompt, systemPrompt, result, boundaries, result.score)
CacheSet ==
  /\ steps < MaxCacheSteps
  /\ \E key \in Fingerprints, result \in CacheResults :
       /\ scoreCache' =
            cacheSet(scoreCache, key, result, result.score * 1000, now)
       /\ ret' = [op |-> "set", arg |-> [key |-> key, result |-> result],
                  value |-> Null]
  /\ steps' = steps + 1
  /\ UNCHANGED <<now, healthVars, sessionVars, classifierVars, adaptive,
                 routed, inflight>>

\* callers' cache.get(prompt, systemPrompt)
CacheGet ==
  /\ steps < MaxCacheSteps
  /\ \E key \in Fingerprints :
       /\ scoreCache' = cacheGetState(scoreCache, key, now)
       /\ ret' = [op |-> "get", arg |-> [key |-> key],
                  value |-> cacheGet(scoreCache, key, now)]
  /\ steps' = steps + 1
  /\ UNCHANGED <<now, healthVars, sessionVars, classifierVars, adaptive,
                 routed, inflight>>

\* callers' cache.cleanup()
CacheCleanup ==
  /\ steps < MaxCacheSteps
  /\ scoreCache' = cacheCleanup(scoreCache, now)
  /\ ret' = [op |-> "cleanup", arg |-> Null,
             value |-> cacheCleaned(scoreCache, now)]
  /\ steps' = steps + 1
  /\ UNCHANGED <<now, healthVars, sessionVars, classifierVars, adaptive,
                 routed, inflight>>

\* callers' cache.clear()
CacheClear ==
  /\ steps < MaxCacheSteps
  /\ scoreCache' = cacheClear(scoreCache)
  /\ ret' = [op |-> "clear", arg |-> Null, value |-> Null]
  /\ steps' = steps + 1
  /\ UNCHANGED <<now, healthVars, sessionVars, classifierVars, adaptive,
                 routed, inflight>>

CacheTick ==
  /\ now + CacheTickStep <= MaxCacheTime
  /\ now' = now + CacheTickStep
  /\ ret' = NoRet
  /\ UNCHANGED <<healthVars, sessionVars, classifierVars, routerVars, steps>>

InitCache ==
  /\ InitClock
  /\ InitTracker({0})
  /\ InitStore({TRUE})
  /\ InitClassifier
  /\ \E maxSize \in CacheSizes : scoreCache = newScoreCache(maxSize)
  /\ adaptive = NoAdaptive
  /\ routed = NoRouted
  /\ inflight = NoInflight

NextCache ==
  \/ CacheSet
  \/ CacheGet
  \/ CacheCleanup
  \/ CacheClear
  \/ CacheTick

SpecCache == InitCache /\ [][NextCache]_vars

-----------------------------------------------------------------------------
(* Score cache: properties *)

\* C16: after any sequence of set, get, cleanup and clear calls the number
\* of cached entries never exceeds maxSize.
C16_SizeWithinMaxSize == cacheSize(scoreCache) <= scoreCache.maxSize

\* C16 witness: a cache of maxSize 2 that is full after the fifth call, a
\* set of the most recently used key, the other entry having been read
C16_Witness ==
  /\ ret.op = "set"
  /\ steps = MaxCacheSteps
  /\ scoreCache.maxSize = 2
  /\ cacheSize(scoreCache) = 2
  /\ scoreCache.accessOrder
       = <<CHOOSE k \in Fingerprints :
             k # ret.arg.key /\ scoreCache.cache[k].exists, ret.arg.key>>
  /\ scoreCache.cache[scoreCache.accessOrder[1]].hitCount = 2

\* the tiers of the last jitterThreshold entries of a tier history
jitterWindowOf(history) ==
  {history[i] : i \in (Len(history) - jitterThreshold + 1)..Len(history)}

\* the number of entries of tier among the last jitterThreshold of history
jitterCount(history, tier) ==
  Cardinality({i \in (Len(history) - jitterThreshold + 1)..Len(history) :
                 history[i] = tier})

\* C17: when the last jitterThreshold tiers recorded by set for a key are not
\* all equal, set installs a lock holding the most frequent tier of that
\* window; and while a key is locked every get that returns an entry for it
\* returns the locked tier, with a confidence of at least 0.7 when the
\* stored tier differs from the lock.
C17_JitterLock ==
  [][/\ ret'.op = "set" /\ ret'.arg.result.tier # Null
         => LET history == scoreCache'.jitterTracker[ret'.arg.key]
                lock == scoreCache'.jitterLocks[ret'.arg.key]
            IN Len(history) >= jitterThreshold
                 /\ Cardinality(jitterWindowOf(history)) >= 2
                 => /\ lock \in jitterWindowOf(history)
                    /\ \A other \in jitterWindowOf(history) :
                         jitterCount(history, lock)
                           >= jitterCount(history, other)
     /\ ret'.op = "get" /\ ret'.value.exists
           /\ scoreCache.jitterLocks[ret'.arg.key] # Null
         => /\ ret'.value.result.tier = scoreCache.jitterLocks[ret'.arg.key]
            /\ scoreCache.cache[ret'.arg.key].result.tier
                 # scoreCache.jitterLocks[ret'.arg.key]
                 => ret'.value.result.confidence >= lockedConfidenceFloor
    ]_vars

\* C17 witness: a get of a key locked to SIMPLE by the tiers SIMPLE, SIMPLE,
\* MEDIUM that returned SIMPLE while MEDIUM with confidence 0.6 is stored
C17_Witness ==
  /\ ret.op = "get"
  /\ ret.value.exists
  /\ scoreCache.jitterTracker[ret.arg.key] = <<"SIMPLE", "SIMPLE", "MEDIUM">>
  /\ scoreCache.jitterLocks[ret.arg.key] = "SIMPLE"
  /\ scoreCache.cache[ret.arg.key].result.tier = "MEDIUM"
  /\ scoreCache.cache[ret.arg.key].result.confidence < lockedConfidenceFloor
  /\ ret.value.result.tier = "SIMPLE"
  /\ ret.value.result.confidence = lockedConfidenceFloor

\* C18: get returns undefined for an entry older than ttlMs and removes it
\* from the cache; an entry not older than ttlMs is returned with its
\* hitCount one higher; set leaves the entry with hitCount 1.
C18_TtlAndHitCount ==
  [][/\ ret'.op = "get" /\ scoreCache.cache[ret'.arg.key].exists
         => LET key == ret'.arg.key
                stored == scoreCache.cache[key]
            IN IF now - stored.timestamp > ttlMs
               THEN ~ret'.value.exists /\ ~scoreCache'.cache[key].exists
               ELSE /\ ret'.value.exists
                    /\ ret'.value.hitCount = stored.hitCount + 1
                    /\ scoreCache'.cache[key].hitCount = stored.hitCount + 1
                    /\ scoreCache'.cache[key].timestamp = stored.timestamp
     /\ ret'.op = "set"
         => /\ scoreCache'.cache[ret'.arg.key].exists
            /\ scoreCache'.cache[ret'.arg.key].hitCount = 1
            /\ scoreCache'.cache[ret'.arg.key].timestamp = now
    ]_vars

\* C18 witness: the third get of an entry whose age is exactly ttlMs, which
\* returned it with hitCount 4
C18_Witness ==
  /\ ret.op = "get"
  /\ ret.value.exists
  /\ now - ret.value.timestamp = ttlMs
  /\ ret.value.hitCount = 4

\* C18 witness, second case: a get that found its entry older than ttlMs
\* and removed it, the key's jitter history staying
C18_WitnessExpired ==
  /\ ret.op = "get"
  /\ ~ret.value.exists
  /\ ~scoreCache.cache[ret.arg.key].exists
  /\ scoreCache.jitterTracker[ret.arg.key] # << >>
  /\ now > ttlMs

-----------------------------------------------------------------------------
(* Two callers with requests under way at the same time.  route and          *)
(* recordRoutingFeedback are synchronous functions, so the calls of the two  *)
(* callers interleave as whole calls.                                        *)

MaxConcurrentSteps == 6

ConcurrentRequests ==
  {req \in Requests : req.id \in {"medium", "complex-edge"}}

\* a caller without a decision calls route(...)
CallerRoutes ==
  /\ steps < MaxConcurrentSteps
  /\ \E c \in Callers, req \in ConcurrentRequests :
       /\ ~inflight.decisions[c].exists
       /\ \E r \in {route(req, DefaultOptions, scoreCache, adaptive,
                           scoreHistory, healthRecords, now)} :
            /\ scoreCache' = r.cache
            /\ \E cleanup \in BOOLEAN :
                 scoreHistory' =
                   classifyByRulesHistory(req, scoreHistory, cleanup)
            /\ healthRecords' = r.health
            /\ inflight' =
                 [inflight EXCEPT
                    !.decisions[c] = [exists |-> TRUE, sessionId |-> Null,
                                      decision |-> r.decision]]
            /\ ret' = [op |-> "route",
                       arg |-> [request |-> req, options |-> DefaultOptions],
                       value |-> r.decision]
  /\ steps' = steps + 1
  /\ UNCHANGED <<now, latencyHistory, sessionVars, adaptive, routed>>

\* a caller holding a decision calls recordRoutingFeedback(decision, feedback)
CallerRecordsFeedback ==
  /\ steps < MaxConcurrentSteps
  /\ \E c \in Callers, feedback \in Feedbacks :
       /\ inflight.decisions[c].exists
       /\ LET decision == inflight.decisions[c].decision
          IN /\ adaptive' =
                  recordFeedback(adaptive, routingFeedback(decision, feedback))
             /\ UpdateHealthCall(decision.model, feedback.success,
                                 feedback.latencyMs, feedback.errorType)
             /\ inflight' =
                  [inflight EXCEPT !.decisions[c] = NoRouted,
                                   !.completed[decision.model] = @ + 1]
             /\ ret' = [op |-> "recordRoutingFeedback",
                        arg |-> [sessionId |-> Null, feedback |-> feedback],
                        value |-> Null]
  /\ steps' = steps + 1
  /\ UNCHANGED <<now, sessionVars, classifierVars, scoreCache, routed>>

InitConcurrent ==
  /\ InitClock
  /\ InitTracker({0})
  /\ InitStore({FALSE})
  /\ InitClassifier
  /\ InitRouter

NextConcurrent ==
  \/ CallerRoutes
  \/ CallerRecordsFeedback
  \/ RouteTick

SpecConcurrent == InitConcurrent /\ [][NextConcurrent]_vars

\* C23: under any interleaving of the route and recordRoutingFeedback calls
\* of two callers, after every step each model's health record has
\* successfulRequests <= totalRequests, successRate = successfulRequests /
\* totalRequests, and totalRequests equal to the number of completed feedback
\* calls for the model.
C23_NoLostUpdate ==
  \A m \in Models :
    /\ healthRecords[m].successfulRequests <= healthRecords[m].totalRequests
    /\ healthRecords[m].totalRequests = inflight.completed[m]
    /\ healthRecords[m].totalRequests > 0
         => healthRecords[m].successRate
              = <<healthRecords[m].successfulRequests,
                  healthRecords[m].totalRequests>>

\* C23 witness: both callers routed to the same model before either gave
\* feedback; one feedback call has completed, a failure, and the other
\* caller still holds its decision
C23_Witness ==
  /\ ret.op = "recordRoutingFeedback"
  /\ ~ret.arg.feedback.success
  /\ inflight.completed["primary"] = 1
  /\ healthRecords["primary"].totalRequests = 1
  /\ healthRecords["primary"].successRate = <<0, 1>>
  /\ steps = 3
  /\ \E c \in Callers :
       /\ inflight.decisions[c].exists
       /\ inflight.decisions[c].decision.model = "primary"

-----------------------------------------------------------------------------
(* Adaptive weights: the calls *)

MaxAdaptiveSteps == 12
WarmFeedbacks == 200

\* feedback of the best and of the worst kind: latency in ms, cost in
\* millionths of a dollar; "tokens" maps to no dimension
AdaptiveFeedbacks ==
  {[dimensionSignals |-> signals, tier |-> "MEDIUM", model |-> "primary",
    latencyMs |-> outcome.latencyMs, cost |-> outcome.cost,
    success |-> outcome.success] :
     signals \in {<<"technical">>, <<"tokens", "code", "technical">>},
     outcome \in {[latencyMs |-> 0, cost |-> 0, success |-> TRUE],
                  [latencyMs |-> 40000, cost |-> 200000, success |-> FALSE]}}

\* the manager a after n more calls of recordFeedback(feedback)
RECURSIVE FeedbackReplay(_, _, _)
FeedbackReplay(a, n, feedback) ==
  IF n = 0 THEN a
  ELSE IF n = 1 THEN recordFeedback(a, feedback)
  ELSE CHOOSE after \in {FeedbackReplay(half, n - n \div 2, feedback) :
                           half \in {FeedbackReplay(a, n \div 2, feedback)}} :
         TRUE

\* callers' recordFeedback(feedback)
RecordFeedback ==
  /\ steps < MaxAdaptiveSteps
  /\ \E feedback \in AdaptiveFeedbacks :
       /\ adaptive' = recordFeedback(adaptive, feedback)
       /\ ret' = [op |-> "recordFeedback", arg |-> feedback, value |-> Null]
  /\ steps' = steps + 1
  /\ UNCHANGED <<now, healthVars, sessionVars, classifierVars, scoreCache,
                 routed, inflight>>

InitAdaptive ==
  /\ InitClock
  /\ InitTracker({0})
  /\ InitStore({TRUE})
  /\ InitClassifier
  /\ scoreCache = EmptyCache
  /\ routed = NoRouted
  /\ inflight = NoInflight
  /\ \E n \in {0, WarmFeedbacks}, feedback \in AdaptiveFeedbacks :
       adaptive = FeedbackReplay(NoAdaptive, n, feedback)

NextAdaptive == RecordFeedback

SpecAdaptive == InitAdaptive /\ [][NextAdaptive]_vars

-----------------------------------------------------------------------------
(* Adaptive weights: properties *)

C22_AdjustsEveryInterval ==
  [][ret'.op = "recordFeedback"
       => /\ adaptive'.requestCount = adaptive.requestCount + 1
          /\ adaptive'.lastAdjustment
               = (adaptive'.requestCount \div adjustmentInterval)
                   * adjustmentInterval
          /\ \A d \in Dimensions :
               \/ adaptive'.requestCount % adjustmentInterval # 0
               \/ adaptive'.dimensionStats[d].totalRequests < 5
               => adaptive'.dimensionStats[d].adjustmentFactor
                    = adaptive.dimensionStats[d].adjustmentFactor]_vars

\* C22 witness: the tenth call to a fresh manager adjusted the factor of a
\* dimension seen in all ten requests and left that of one seen in four
C22_Witness ==
  /\ ret.op = "recordFeedback"
  /\ adaptive.requestCount = adjustmentInterval
  /\ adaptive.lastAdjustment = adjustmentInterval
  /\ adaptive.dimensionStats["technicalTerms"].totalRequests = 10
  /\ adaptive.dimensionStats["technicalTerms"].adjustmentFactor < 1000
  /\ adaptive.dimensionStats["codePresence"].totalRequests = 4
  /\ adaptive.dimensionStats["codePresence"].successfulRequests = 0
  /\ adaptive.dimensionStats["codePresence"].adjustmentFactor = 1000

-----------------------------------------------------------------------------
(* Requests with 0 to 4 agentic keywords, with and without agenticMode *)

MaxAgenticSteps == 3

\* the agentic request of Requests with k of its keywords
AgenticRequests ==
  {[req EXCEPT !.matches.agentic = k] :
     req \in {r \in Requests : r.id = "agentic"}, k \in 0..4}

AgenticOptions ==
  {[DefaultOptions EXCEPT !.enableHealthTracking = FALSE],
   [DefaultOptions EXCEPT !.enableHealthTracking = FALSE,
                          !.agenticMode = TRUE]}

RouteAgentic == RouteOf(AgenticRequests, AgenticOptions, MaxAgenticSteps)

NextAgentic == RouteAgentic

SpecAgentic == InitRoute /\ [][NextAgentic]_vars

-----------------------------------------------------------------------------
(* The router: properties *)

\* this step is a call of route that reaches the health check
RoutesWithHealthCheck ==
  /\ ret'.op = "route"
  /\ ret'.arg.options.enableHealthTracking
  /\ ret'.arg.request.estimatedTokens <= maxTokensForceComplex

\* the (primary, fallback[]) of the tier chosen by this call of route
RoutedTierConfig ==
  LET agentic == \E i \in 1..Len(ret'.value.reasoning) :
                   ret'.value.reasoning[i] \in {"agentic", "auto-agentic"}
  IN IF agentic THEN agenticTiers[ret'.value.tier]
     ELSE tiers[ret'.value.tier]

\* C6 as stated: route with health tracking enabled names the model that
\* getBestModel returns for the chosen tier's candidates [primary, ...fallback]
\* whenever it returns one.
C6_RoutesBestModel ==
  [][RoutesWithHealthCheck
       => LET candidates == <<RoutedTierConfig.primary>>
                              \o RoutedTierConfig.fallback
              best == getBestModel(healthRecords, candidates, now)
          IN best # Null => ret'.value.model = best]_vars

\* this step is a call of route with the id of session s, which is pinned to
\* an available model and not degraded
RoutesPinnedSession(s) ==
  /\ ret'.op = "route"
  /\ ret'.arg.options.sessionId = s
  /\ sessionEnabled
  /\ getSession(sessionEnabled, sessions[s], now).exists
  /\ ~isDegraded(sessions[s])
  /\ isAvailableResult(getHealth(healthRecords, sessions[s].model), now)

\* C7 as stated (first part): route called with the id of a session pinned to
\* an available model M, the session not degraded, returns a decision whose
\* model is M.
C7_RoutesPinnedModel ==
  [][\A s \in SessionIds :
       RoutesPinnedSession(s) => ret'.value.model = sessions[s].model]_vars

\* this step is recordRoutingFeedback for a decision made with the id of
\* session s
FeedbackForSession(s) ==
  /\ ret'.op = "recordRoutingFeedback"
  /\ ret'.arg.sessionId = s
  /\ sessionEnabled
  /\ sessions[s].exists

\* C8 as stated: after recordRoutingFeedback for a decision made with a
\* session id, the session's consecutiveFailures and token totals are those
\* SessionStore.recordResult leaves for the outcome.
C8_FeedbackReachesSession ==
  [][\A s \in SessionIds :
       FeedbackForSession(s)
         => LET feedback == ret'.arg.feedback
                expected ==
                  recordResult(sessionEnabled, sessions[s], healthRecords,
                               [success |-> feedback.success,
                                latencyMs |-> feedback.latencyMs,
                                inputTokens |-> feedback.inputTokens,
                                outputTokens |-> feedback.outputTokens,
                                error |-> feedback.errorType],
                               now).metrics
            IN /\ sessions'[s].metrics.consecutiveFailures
                    = expected.consecutiveFailures
               /\ sessions'[s].metrics.totalInputTokens
                    = expected.totalInputTokens
               /\ sessions'[s].metrics.totalOutputTokens
                    = expected.totalOutputTokens]_vars

\* this step is a call of route that is not cut short by the large-context
\* override
RoutesToTier ==
  /\ ret'.op = "route"
  /\ ret'.arg.request.estimatedTokens <= maxTokensForceComplex

\* C12 as stated: when the cache returns an entry whose tier Tc differs from
\* the newly classified non-null tier Tn and shouldUseCachedTier does not
\* hold, the decision's tier is Tn (raised to the structured-output minimum
\* where that applies).
C12_CachedTierOnlyIfFuzzy ==
  [][RoutesToTier /\ ret'.arg.options.enableCache
       => LET req == ret'.arg.request
              cached == cacheGet(scoreCache, req.fingerprint, now)
              Tn == classifyByRules(req, scoreHistory).tier
          IN /\ cached.exists
             /\ cached.result.tier # Null
             /\ Tn # Null
             /\ cached.result.tier # Tn
             /\ ~shouldUseCachedTier(cached, cached.result.score, Tn)
             => ret'.value.tier
                  = afterStructuredOutput(req, ret'.arg.options, Tn)]_vars

tierBeforeStructuredOutput(req, options) ==
  LET cached == cacheGet(scoreCache, req.fingerprint, now)
      Tn == classifyByRules(req, scoreHistory).tier
  IN IF options.enableCache /\ cached.exists /\ cached.result.tier # Null
     THEN cached.result.tier
     ELSE IF Tn # Null THEN Tn ELSE options.ambiguousDefaultTier

C14_WitnessAmbiguous ==
  /\ ret.op = "route"
  /\ ret.arg.request.structured
  /\ ret.value.reasoning = <<"ambiguous", "upgraded">>
  /\ ret.value.tier = "COMPLEX"

-----------------------------------------------------------------------------
(* Session store: the error log *)

\* C19: recentErrors never holds more than 5 entries, and a failed
\* recordResult carrying an error string leaves it holding the most recent
\* errors in order of occurrence: the new one last, the earlier ones before
\* it in their order, the oldest dropped when there were already 5.
C19_RecentErrorsBounded ==
  [][\A s \in SessionIds :
       /\ Len(sessions'[s].recentErrors) <= maxRecentErrors
       /\ FailedResult(s) /\ ret'.arg[3] # NoError
            => LET before == sessions[s].recentErrors
                   after == sessions'[s].recentErrors
                   dropped == Len(before) + 1 - Len(after)
               IN /\ Len(after) = Min(Len(before) + 1, maxRecentErrors)
                  /\ after[Len(after)].error = ret'.arg[3]
                  /\ after[Len(after)].timestamp = now
                  /\ \A i \in 1..(Len(after) - 1) :
                       after[i] = before[i + dropped]]_vars

\* C19 witness: six failures in a row, each with an error string, the last
\* of another kind and at a later time than the oldest one kept
C19_Witness ==
  \E s \in SessionIds :
    /\ ret.op = "recordResult"
    /\ sessions[s].exists
    /\ sessions[s].metrics.consecutiveFailures = 6
    /\ sessions[s].metrics.totalInputTokens = 300
    /\ Len(sessions[s].recentErrors) = maxRecentErrors
    /\ sessions[s].recentErrors[1].error
         # sessions[s].recentErrors[maxRecentErrors].error
    /\ sessions[s].recentErrors[1].timestamp
         < sessions[s].recentErrors[maxRecentErrors].timestamp

-----------------------------------------------------------------------------
(* Session store: expiry *)

\* C20: getSession returns undefined and deletes the entry when
\* now - lastUsedAt > timeoutMs, and otherwise returns the entry and sets
\* lastUsedAt to now; the cleanup timer removes exactly the entries with
\* now - lastUsedAt > timeoutMs; so no entry is removed by either within
\* timeoutMs of its last access.
C20_SessionExpiry ==
  [][\A s \in SessionIds :
       /\ ret'.op = "getSession" /\ ret'.arg = <<s>> /\ sessionEnabled
             /\ sessions[s].exists
            => IF now - sessions[s].lastUsedAt > timeoutMs
               THEN ret'.value = Null /\ ~sessions'[s].exists
               ELSE /\ ret'.value = sessions[s].model
                    /\ sessions'[s] = [sessions[s] EXCEPT !.lastUsedAt = now]
       /\ ret'.op = "cleanup"
            => IF sessions[s].exists
                    /\ now - sessions[s].lastUsedAt > timeoutMs
               THEN ~sessions'[s].exists
               ELSE sessions'[s] = sessions[s]
       /\ sessions[s].exists /\ ~sessions'[s].exists
             /\ ret'.op # "clearSession"
            => now - sessions[s].lastUsedAt > timeoutMs]_vars

\* C20 witness: a session pinned once and still returned by getSession two
\* timeouts after the start
C20_Witness ==
  \E s \in SessionIds :
    /\ ret.op = "getSession"
    /\ ret.value # Null
    /\ sessions[s].exists
    /\ sessions[s].requestCount = 1
    /\ sessions[s].lastUsedAt = now
    /\ now = 2 * timeoutMs
    /\ steps = 1

\* C24 as stated: route takes the model from config.agenticTiers when the
\* request matches 3 or more agentic keywords (agenticScore >= 0.6) or
\* overrides.agenticMode is true, and from config.tiers otherwise.
C24_AgenticTable ==
  ret.op = "route"
    => ret.value.model
         = IF ret.arg.request.matches.agentic >= 3 \/ ret.arg.options.agenticMode
           THEN agenticTiers[ret.value.tier].primary
           ELSE tiers[ret.value.tier].primary

(***************************************************************************)
(* Session store: the context snapshot                                     *)
(***************************************************************************)

\* no context argument
NoContext == [given |-> FALSE, hasTopics |-> FALSE, topics |-> << >>, intent |-> ""]

\* the context arguments tried: topics only, topics and intent, intent only,
\* topics that repeat a stored one
Contexts ==
  { NoContext,
    [given |-> TRUE, hasTopics |-> TRUE, topics |-> <<"coding">>, intent |-> ""],
    [given |-> TRUE, hasTopics |-> TRUE, topics |-> <<"javascript">>,
     intent |-> "debugging"],
    [given |-> TRUE, hasTopics |-> TRUE, topics |-> <<"coding", "javascript">>,
     intent |-> ""],
    [given |-> TRUE, hasTopics |-> FALSE, topics |-> << >>, intent |-> "debugging"] }

\* a SessionEntry object handed over where a session id is expected: it is
\* the key of no entry of the sessions Map
EntryObject == "[object SessionEntry]"

\* [...new Set(seq)]: the first occurrence of each element, in order
RECURSIVE unique(_)
unique(seq) ==
  IF seq = << >> THEN << >>
  ELSE LET init == unique(SubSeq(seq, 1, Len(seq) - 1))
           last == seq[Len(seq)]
       IN IF \E i \in 1..Len(init) : init[i] = last THEN init
          ELSE Append(init, last)

\* the first declaration of updateContext in the class body, taking the entry:
\* the later declaration of the same name replaces it
updateContext_Entry(entry, context) ==
  LET merged == unique(entry.contextSnapshot.topics \o context.topics)
  IN [entry EXCEPT
        !.contextSnapshot.topics =
           IF context.hasTopics
           THEN SubSeq(merged, 1, Min(10, Len(merged)))
           ELSE @,
        !.contextSnapshot.intent =
           IF context.intent # "" THEN context.intent ELSE @]

\* SessionStore.updateContext(sessionId, context), the declaration in force:
\* the sessions it leaves.  Its inner this.updateContext(entry, context) is a
\* call of itself with the entry as sessionId.
RECURSIVE updateContext(_, _, _, _)
updateContext(enabled, sess, sessionId, context) ==
  IF ~enabled THEN sess
  ELSE IF sessionId \in SessionIds /\ sess[sessionId].exists
  THEN updateContext(enabled, sess, EntryObject, context)
  ELSE sess

\* SessionStore.setSession(sessionId, model, tier, context): the sessions it
\* leaves
setSessionContext(enabled, sess, s, model, tier, context, t) ==
  IF ~enabled THEN sess
  ELSE IF sess[s].exists
  THEN LET s1 == [sess EXCEPT ![s] = setSession(enabled, @, model, tier, t)]
       IN IF context.given
          THEN updateContext(enabled, s1, EntryObject, context)
          ELSE s1
  ELSE [sess EXCEPT
          ![s] = [setSession(enabled, @, model, tier, t) EXCEPT
                    !.contextSnapshot =
                       [topics |-> IF context.given /\ context.hasTopics
                                   THEN context.topics ELSE << >>,
                        intent |-> IF context.given /\ context.intent # ""
                                   THEN context.intent ELSE "general"]]]

MaxContextSteps == 3

SetSessionContext ==
  /\ steps < MaxContextSteps
  /\ \E s \in SessionIds, model \in Models, tier \in SessionTiers,
        context \in Contexts :
       /\ sessions' = setSessionContext(sessionEnabled, sessions, s, model,
                                        tier, context, now)
       /\ ret' = [op |-> "setSession",
                  arg |-> [s |-> s, model |-> model, tier |-> tier,
                           context |-> context],
                  value |-> Null]
  /\ steps' = steps + 1
  /\ UNCHANGED <<now, healthVars, sessionEnabled, classifierVars, routerVars>>

UpdateContext ==
  /\ steps < MaxContextSteps
  /\ \E s \in SessionIds, context \in Contexts \ {NoContext} :
       /\ sessions' = updateContext(sessionEnabled, sessions, s, context)
       /\ ret' = [op |-> "updateContext",
                  arg |-> [s |-> s, context |-> context],
                  value |-> Null]
  /\ steps' = steps + 1
  /\ UNCHANGED <<now, healthVars, sessionEnabled, classifierVars, routerVars>>

InitContext ==
  /\ InitClock
  /\ InitTracker({0})
  /\ InitStore({TRUE})
  /\ InitClassifier
  /\ InitRouter

NextContext ==
  \/ SetSessionContext
  \/ UpdateContext
  \/ SessionTick

SpecContext == InitContext /\ [][NextContext]_vars

\* C25 as stated: a context handed to setSession or to updateContext for a
\* session that exists merges its topics into the stored ones (the stored
\* ones first, each topic once, ten at most) and replaces the intent.
C25_ContextMerged ==
  [][\A s \in SessionIds :
       /\ ret'.op \in {"setSession", "updateContext"}
       /\ ret'.arg.s = s
       /\ ret'.arg.context.given
       /\ sessionEnabled
       /\ sessions[s].exists
       => sessions'[s].contextSnapshot
            = updateContext_Entry(sessions[s], ret'.arg.context).contextSnapshot]_vars

(***************************************************************************)
(* Request fingerprints.  A text is a sequence of characters; a fingerprint *)
(* is the sequence of its '|'-separated fields (no character of Alphabet is *)
(* a '|').                                                                  *)
(***************************************************************************)

MaxPromptLen == 4
Alphabet == {"H", "h", ",", " "}

\* the prompts fingerprinted
Prompts == UNION {[1..n -> Alphabet] : n \in 0..MaxPromptLen}

\* NORMALIZATION_PATTERNS.whitespace and .decorativePunct, as character
\* classes (the quote and CJK classes hold no character of Alphabet)
whitespace == {" "}
decorativePunct == {"!", ".", ",", ";", ":"}

\* String.prototype.toLowerCase, one character
toLowerCase(c) == IF c = "H" THEN "h" ELSE c

\* text.replace(/[class]+/g, ' '): every maximal run of characters of the
\* class becomes one space
RECURSIVE replaceRuns(_, _)
replaceRuns(text, class) ==
  IF text = << >> THEN << >>
  ELSE LET init == replaceRuns(SubSeq(text, 1, Len(text) - 1), class)
           last == text[Len(text)]
       IN IF last \notin class THEN Append(init, last)
          ELSE IF Len(text) > 1 /\ text[Len(text) - 1] \in class THEN init
          ELSE Append(init, " ")

\* String.prototype.trim
RECURSIVE trim(_)
trim(text) ==
  IF text = << >> THEN << >>
  ELSE IF text[1] \in whitespace THEN trim(Tail(text))
  ELSE IF text[Len(text)] \in whitespace
  THEN trim(SubSeq(text, 1, Len(text) - 1))
  ELSE text

\* normalize(text)
normalize(text) ==
  LET spaced == replaceRuns(text, whitespace)
      plain == replaceRuns(spaced, decorativePunct)
      trimmed == trim(plain)
  IN [i \in 1..Len(trimmed) |-> toLowerCase(trimmed[i])]

\* contentHash(text)
contentHash(text) ==
  LET normalized == normalize(text)
      n == Len(normalized)
  IN IF n <= 150 THEN normalized
     ELSE SubSeq(normalized, 1, 100) \o <<".", ".", ".">>
            \o SubSeq(normalized, n - 49, n)

\* extractFeatures(text), sorted: the code, reasoning and multi-step
\* patterns each need a character outside Alphabet, so the tags left are
\* the question count and the length category
extractFeatures(text) ==
  LET questionCount == Cardinality({i \in 1..Len(text) : text[i] = "?"})
      tokenEstimate == (Len(text) + 3) \div 4
      length == IF tokenEstimate < 50 THEN <<"S", "H", "O", "R", "T">>
                ELSE IF tokenEstimate < 200
                THEN <<"M", "E", "D", "I", "U", "M">>
                ELSE IF tokenEstimate < 1000 THEN <<"L", "O", "N", "G">>
                ELSE <<"X", "L", "O", "N", "G">>
  IN IF questionCount > 0
     THEN <<IF questionCount = 1 THEN <<"Q", "1">>
            ELSE IF questionCount = 2 THEN <<"Q", "2">> ELSE <<"Q", "3">>,
            length>>
     ELSE <<length>>

\* generateFingerprint(prompt, undefined): the fields of
\* `${features.sort().join('|')}|${content}|${sysHash}`
generateFingerprint(prompt) ==
  extractFeatures(prompt) \o <<contentHash(prompt), <<"n", "o", "n", "e">>>>

\* fingerprintsSimilar(fp1, fp2); fp.split('|', 2) is the first two fields
fingerprintsSimilar(fp1, fp2) ==
  LET features1 == fp1[1]
      content1 == fp1[2]
      features2 == fp2[1]
      content2 == fp2[2]
      maxLen == Max(Len(content1), Len(content2))
      minLen == Min(Len(content1), Len(content2))
      diffCount == Cardinality({i \in 1..minLen : content1[i] # content2[i]})
                     + (maxLen - minLen)
  IN IF features1 # features2 THEN FALSE
     ELSE IF content1 = content2 THEN TRUE
     ELSE IF 10 * minLen < 9 * maxLen THEN FALSE
     ELSE 10 * diffCount < maxLen

MaxFingerprintSteps == 1

FingerprintsSimilar ==
  /\ steps < MaxFingerprintSteps
  /\ \E a \in Prompts, b \in Prompts :
       ret' = [op |-> "fingerprintsSimilar", arg |-> <<a, b>>,
               value |-> fingerprintsSimilar(generateFingerprint(a),
                                             generateFingerprint(b))]
  /\ steps' = steps + 1
  /\ UNCHANGED <<now, healthVars, sessionVars, classifierVars, routerVars>>

NextFingerprint == FingerprintsSimilar

SpecFingerprint == InitContext /\ [][NextFingerprint]_vars

\* the two texts are one text up to the case of its letters
DifferOnlyInCase(a, b) ==
  /\ Len(a) = Len(b)
  /\ \A i \in 1..Len(a) : toLowerCase(a[i]) = toLowerCase(b[i])

\* the text without its decorative punctuation
RECURSIVE withoutPunct(_)
withoutPunct(text) ==
  IF text = << >> THEN << >>
  ELSE IF text[1] \in decorativePunct THEN withoutPunct(Tail(text))
  ELSE <<text[1]>> \o withoutPunct(Tail(text))

DifferOnlyInPunct(a, b) == withoutPunct(a) = withoutPunct(b)

\* C26 as stated: the fingerprints of two prompts that differ only in the
\* case of their letters, or only in decorative punctuation, are similar.
C26_SimilarUpToCaseAndPunct ==
  ret.op = "fingerprintsSimilar"
    /\ (\/ DifferOnlyInCase(ret.arg[1], ret.arg[2])
        \/ DifferOnlyInPunct(ret.arg[1], ret.arg[2]))
    => ret.value

\* C26, the documented pair: 'H, h' and 'H h' differ only in a comma
C26_CommaPair ==
  ret.op = "fingerprintsSimilar"
    /\ ret.arg = <<<<"H", ",", " ", "h">>, <<"H", " ", "h">>>>
    => ret.value

(***************************************************************************)
(* Health tracker: getBestModel over three candidates                      *)
(***************************************************************************)

BestModels == {"model-a", "model-b", "model-c"}
BestLatencies == {100, 200, 300}
ServedRequests == 50

\* the tracker's state for a model after n calls of updateHealth at time 0,
\* all of latency lat, the call failing whenever its number is a multiple of
\* failEvery
RECURSIVE Served(_, _, _)
Served(n, failEvery, lat) ==
  IF n = 0 THEN [rec |-> NoRecord, hist |-> << >>]
  ELSE CHOOSE after \in
         {[rec |-> updateHealthRecord(before.rec, before.hist,
                                      n % failEvery # 0, lat, NoError, 0),
           hist |-> updateHealthHistory(before.hist, lat)] :
            before \in {Served(n - 1, failEvery, lat)}} : TRUE

\* the records the candidates may have: none, 50 requests without a failure,
\* 50 requests at success rates 0.94, 0.90 and 0.86, two failed requests
BestRecords ==
  {NoRecord, Served(ServedRequests, ServedRequests + 1, 100).rec,
   Served(2, 1, 100).rec}
    \cup {Served(ServedRequests, failEvery, lat).rec :
            failEvery \in {16, 10, 7}, lat \in BestLatencies}

\* the orders in which the three candidates may be listed
BestCandidateLists ==
  {c \in [1..3 -> BestModels] : \A i, j \in 1..3 : c[i] = c[j] => i = j}

MaxBestSteps == 1

\* healthTracker.getBestModel(tier, candidates) on a tracker that holds the
\* records hr
GetBestOfThree ==
  /\ steps < MaxBestSteps
  /\ \E hr \in [BestModels -> BestRecords],
        candidates \in BestCandidateLists :
       ret' = [op |-> "getBestOfThree",
               arg |-> [hr |-> hr, candidates |-> candidates],
               value |-> getBestModel(hr, candidates, now)]
  /\ steps' = steps + 1
  /\ UNCHANGED <<now, healthVars, sessionVars, classifierVars, routerVars>>

NextBest == GetBestOfThree

SpecBest == InitContext /\ [][NextBest]_vars

\* record a is to be preferred to record b: a better status, or the same
\* status and a success rate higher by more than 0.05, or the same status,
\* rates within 0.05 of each other and a lower average latency
Preferred(a, b) ==
  LET gap == RateNum(a) * RateDen(b) - RateNum(b) * RateDen(a)
      within == 20 * Abs(gap) <= RateDen(a) * RateDen(b)
  IN \/ statusPriority(a.status) < statusPriority(b.status)
     \/ /\ statusPriority(a.status) = statusPriority(b.status)
        /\ \/ ~within /\ gap > 0
           \/ within /\ a.avgLatencyMs < b.avgLatencyMs

\* C27 as stated: getBestModel returns null exactly when no candidate is
\* available; otherwise it returns an available candidate to which no
\* available candidate is preferred by status, then success rate, then
\* latency.
C27_BestOfAvailable ==
  ret.op = "getBestOfThree"
    => LET hr == ret.arg.hr
           cands == {ret.arg.candidates[i] : i \in 1..3}
           avail == {m \in cands : isAvailableResult(hr[m], now)}
       IN /\ (ret.value = Null) <=> (avail = {})
          /\ ret.value # Null
               => /\ ret.value \in avail
                  /\ \A m \in avail : ~Preferred(hr[m], hr[ret.value])

(***************************************************************************)
(* The classifier: hysteresis far from the prior tier                      *)
(***************************************************************************)

MaxHysteresisSteps == 3

\* requests of one fingerprint, all of medium length, and the requests of
\* the other fingerprint
HysteresisRequests ==
  {req \in Requests : req.fingerprint = "fpB"} \cup
  { \* score -0.020: SIMPLE
    [PlainRequest EXCEPT !.id = "simple-plain", !.matches.simple = 1],
    \* score 0.100: MEDIUM
    [PlainRequest EXCEPT !.id = "medium", !.matches.technical = 4],
    \* score 0.310: COMPLEX, 0.09 from the nearest boundary
    [PlainRequest EXCEPT !.id = "complex", !.matches.technical = 4,
                         !.matches.code = 2, !.multiStepHits = 1],
    \* score 0.369: COMPLEX, 0.031 below the COMPLEX/REASONING boundary
    [PlainRequest EXCEPT !.id = "near-reasoning", !.matches.technical = 4,
                         !.matches.code = 2, !.multiStepHits = 1,
                         !.matches.constraint = 3, !.matches.domain = 2,
                         !.matches.imperative = 2] }

ClassifyHysteresis ==
  /\ steps < MaxHysteresisSteps
  /\ \E req \in HysteresisRequests, cleanup \in BOOLEAN :
       /\ scoreHistory' = classifyByRulesHistory(req, scoreHistory, cleanup)
       /\ ret' = [op |-> "classifyByRules", arg |-> <<req.id>>,
                  value |-> classifyByRules(req, scoreHistory)]
  /\ steps' = steps + 1
  /\ UNCHANGED <<now, healthVars, sessionVars, routerVars>>

NextHysteresis == ClassifyHysteresis

SpecHysteresis == InitClassify /\ [][NextHysteresis]_vars

\* the boundary a score leaves tier T through: T's upper boundary when the
\* natural tier is above T, its lower boundary when below
ownBoundary(T, score) ==
  IF tierRank(naturalTier(score)) > tierRank(T)
  THEN CASE T = "SIMPLE" -> simpleMedium
         [] T = "MEDIUM" -> mediumComplex
         [] T = "COMPLEX" -> complexReasoning
  ELSE CASE T = "MEDIUM" -> simpleMedium
         [] T = "COMPLEX" -> mediumComplex
         [] T = "REASONING" -> complexReasoning

\* the score is past that boundary by fuzzyWidth or more
movedPast(T, score) ==
  IF tierRank(naturalTier(score)) > tierRank(T)
  THEN score - ownBoundary(T, score) >= fuzzyWidth
  ELSE ownBoundary(T, score) - score >= fuzzyWidth

\* C28 as stated: with a prior tier T other than the natural tier and no
\* reasoning override, the tier the classifier settles on (and records for
\* the fingerprint) is the natural tier when the score is past T's own
\* boundary by fuzzyWidth or more, and T otherwise.
C28_HysteresisDirection ==
  [][\A req \in HysteresisRequests :
       LET score == weightedSum(scoreDimensions(req))
           T == getScoreHistory(scoreHistory, req.fingerprint).lastTier
       IN /\ Classifies(req)
          /\ T # Null
          /\ req.matches.reasoning < reasoningOverrideMatches
          /\ naturalTier(score) # T
          => getScoreHistory(scoreHistory', req.fingerprint).lastTier
               = IF movedPast(T, score) THEN naturalTier(score) ELSE T]_vars

(***************************************************************************)
(* Session store: recovery of a degraded session                           *)
(***************************************************************************)

\* this step is a successful recordResult(s, result)
SuccessfulResult(s) ==
  /\ ret'.op = "recordResult"
  /\ ret'.arg[1] = s
  /\ ret'.arg[2] = "success"
  /\ sessionEnabled
  /\ sessions[s].exists

\* C29 as stated: a successful recordResult on a degraded session counts one
\* more recovery request; at recoveryThreshold, with the original model
\* available, model and tier are restored and the degradation cleared;
\* otherwise the session stays degraded on its current model.
C29_RecoveryRestores ==
  [][\A s \in SessionIds :
       LET d == sessions[s].degradation
           restores ==
             /\ d.recoveryRequests + 1 >= sessionRecoveryThreshold
             /\ isAvailableResult(getHealth(healthRecords, d.originalModel),
                                  now)
       IN SuccessfulResult(s) /\ d.isDegraded
            => IF restores
               THEN /\ sessions'[s].model = d.originalModel
                    /\ sessions'[s].tier = d.originalTier
                    /\ ~sessions'[s].degradation.isDegraded
                    /\ sessions'[s].degradation.recoveryRequests = 0
               ELSE /\ sessions'[s].degradation.isDegraded
                    /\ sessions'[s].degradation.recoveryRequests
                         = d.recoveryRequests + 1
                    /\ sessions'[s].model = sessions[s].model]_vars

\* C29, its case: no call sequence leaves a session degraded (degradeSession
\* finds no model to degrade to), so the recovery above never runs.
C29_NeverDegraded ==
  \A s \in SessionIds : ~sessions[s].degradation.isDegraded

(***************************************************************************)
(* Health tracker: a model with a low success rate                         *)
(***************************************************************************)

MaxUnhealthySteps == 3
\* numbers of requests a model may have served, two in three of them failed,
\* before the exploration starts
LowWarmups == {0, 8}

\* the tracker's state for a model after n calls of updateHealth at time 0,
\* all of latency lat, every third of them successful
RECURSIVE ServedLow(_, _)
ServedLow(n, lat) ==
  IF n = 0 THEN [rec |-> NoRecord, hist |-> << >>]
  ELSE CHOOSE after \in
         {[rec |-> updateHealthRecord(before.rec, before.hist, n % 3 = 0, lat,
                                      NoError, 0),
           hist |-> updateHealthHistory(before.hist, lat)] :
            before \in {ServedLow(n - 1, lat)}} : TRUE

UpdateLow == UpdateHealthOf({"primary"}, MaxUnhealthySteps)

\* healthTracker.isAvailable(model)
IsAvailableLow ==
  /\ \E m \in {"primary"} :
       /\ healthRecords' =
            [healthRecords EXCEPT ![m] = isAvailableRecord(@, now)]
       /\ ret' = [op |-> "isAvailable", arg |-> m,
                  value |-> isAvailableResult(healthRecords[m], now)]
  /\ UNCHANGED <<now, latencyHistory, steps, sessionVars, classifierVars,
                 routerVars>>

InitUnhealthy ==
  /\ InitClock
  /\ \E w \in LowWarmups :
       /\ healthRecords =
            [m \in Models |->
               ServedLow(IF m = "primary" THEN w ELSE 0, 100).rec]
       /\ latencyHistory =
            [m \in Models |->
               ServedLow(IF m = "primary" THEN w ELSE 0, 100).hist]
  /\ InitStore({FALSE})
  /\ InitClassifier
  /\ InitRouter

NextUnhealthy ==
  \/ UpdateLow
  \/ IsAvailableLow
  \/ Tick

SpecUnhealthy == InitUnhealthy /\ [][NextUnhealthy]_vars

\* this step is an updateHealth on m outside an active cooldown that leaves
\* fewer than maxConsecutiveErrors consecutive errors and a success rate
\* below degradedThreshold
LowRateUpdate(m) ==
  /\ UpdatesModel(m)
  /\ healthRecords[m].cooldownUntil <= now
  /\ healthRecords'[m].consecutiveErrors < maxConsecutiveErrors
  /\ ~RateAtLeast(healthRecords'[m], degradedThreshold)

\* what C30 says such an update leaves
LowRateStatus(m) ==
  IF healthRecords'[m].totalRequests < autoCooldownMinRequests
  THEN healthRecords'[m].status = "unhealthy"
  ELSE /\ healthRecords'[m].status = "cooldown"
       /\ healthRecords'[m].cooldownUntil = now + cooldownDurationMs

\* isAvailable reports a model of status 'unhealthy' unavailable
UnhealthyUnavailable ==
  ret'.op = "isAvailable" /\ healthRecords[ret'.arg].status = "unhealthy"
    => ret'.value = FALSE

\* C30 as stated: every such update leaves 'unhealthy' below 10 requests and
\* 'cooldown' with cooldownUntil = now + cooldownDurationMs from 10 on, and
\* isAvailable reports an 'unhealthy' model unavailable.
C30_LowRateStatus ==
  [][/\ \A m \in Models : LowRateUpdate(m) => LowRateStatus(m)
     /\ UnhealthyUnavailable]_vars

\* C30 amended: the same for updates that leave p95LatencyMs at or below
\* latencyThresholdMs (above it the status is 'degraded' whatever the rate).
C30_LowRateStatusAtNormalLatency ==
  [][/\ \A m \in Models :
          /\ LowRateUpdate(m)
          /\ healthRecords'[m].p95LatencyMs <= latencyThresholdMs
          => LowRateStatus(m)
     /\ \A m \in Models :
          /\ LowRateUpdate(m)
          /\ healthRecords'[m].p95LatencyMs > latencyThresholdMs
          => healthRecords'[m].status = "degraded"
     /\ UnhealthyUnavailable]_vars

\* C30: a model sent to cooldown by its low success rate at its tenth
\* request, at normal latency
C30_Witness ==
  /\ healthRecords["primary"].status = "cooldown"
  /\ healthRecords["primary"].cooldownReason = "lowrate"
  /\ healthRecords["primary"].totalRequests = autoCooldownMinRequests
  /\ healthRecords["primary"].consecutiveErrors < maxConsecutiveErrors
  /\ healthRecords["primary"].p95LatencyMs <= latencyThresholdMs
  /\ healthRecords["primary"].cooldownUntil = now + cooldownDurationMs

(***************************************************************************)
(* Adaptive weights: which dimension a signal is counted for               *)
(***************************************************************************)

\* the dimension whose scorer emits the signal (Null for the tags that
\* classifyByRules adds itself)
emittingDimension(signal) ==
  CASE signal \in {"short", "long"} -> "tokenCount"
    [] signal = "code" -> "codePresence"
    [] signal = "reasoning" -> "reasoningMarkers"
    [] signal = "technical" -> "technicalTerms"
    [] signal = "creative" -> "creativeMarkers"
    [] signal = "simple" -> "simpleIndicators"
    [] signal = "multi-step" -> "multiStepPatterns"
    [] signal \in {"<n>", "multi-question"} -> "questionComplexity"
    [] signal = "imperative" -> "imperativeVerbs"
    [] signal = "constraints" -> "constraintCount"
    [] signal = "format" -> "outputFormat"
    [] signal = "references" -> "referenceComplexity"
    [] signal = "negation" -> "negationComplexity"
    [] signal = "domain-specific" -> "domainSpecificity"
    [] signal \in {"agentic", "agentic-light"} -> "agenticTask"
    [] OTHER -> Null

\* C31 as stated: when feedback for a decision is recorded, every dimension
\* that contributed a signal to the decision has its totalRequests
\* incremented by exactly 1.
C31_FeedbackAttribution ==
  [][ret'.op = "recordRoutingFeedback" /\ routed.exists
       /\ routed.decision.meta.exists
     => \A i \in 1..Len(routed.decision.meta.signals) :
          LET d == emittingDimension(routed.decision.meta.signals[i])
          IN d # Null
               => adaptive'.dimensionStats[d].totalRequests
                    = adaptive.dimensionStats[d].totalRequests + 1]_vars

(***************************************************************************)
(* The classifier: the size of scoreHistory.  Fingerprints are numbered.   *)
(***************************************************************************)

MaxHistorySteps == 3
\* numbers of distinct fingerprints classified before the exploration starts
HistoryWarmups == {0, 999}

\* the requests classified, before their fingerprint is chosen
HistoryRequests ==
  {req \in Requests : req.id \in {"medium", "complex", "simple-json"}}

\* scoreHistory after the "medium" request was classified under the
\* fingerprints 1..n (a cleanup below historyLimit entries changes nothing)
WarmHistory(n) ==
  [i \in 1..n |->
     [key |-> i,
      value |-> classifyByRulesHistory(
                  CHOOSE req \in HistoryRequests : req.id = "medium",
                  << >>, FALSE)[1].value]]

\* a fingerprint that was never classified
freshFingerprint(h) ==
  IF h = << >> THEN 1 ELSE h[Len(h)].key + 1

\* classifyByRules(prompt, systemPrompt, estimatedTokens, config, fingerprint)
\* with a fingerprint not seen before
ClassifyDistinct ==
  /\ steps < MaxHistorySteps
  /\ \E r \in HistoryRequests, cleanup \in BOOLEAN :
       LET req == [r EXCEPT !.fingerprint = freshFingerprint(scoreHistory)]
       IN /\ scoreHistory' =
               classifyByRulesHistory(req, scoreHistory, cleanup)
          /\ ret' = [op |-> "classifyByRules", arg |-> <<req.id, cleanup>>,
                     value |-> classifyByRules(req, scoreHistory)]
  /\ steps' = steps + 1
  /\ UNCHANGED <<now, healthVars, sessionVars, routerVars>>

InitHistory ==
  /\ InitClock
  /\ InitTracker({0})
  /\ InitStore({FALSE})
  /\ \E n \in HistoryWarmups : scoreHistory = WarmHistory(n)
  /\ InitRouter

NextHistory == ClassifyDistinct

SpecHistory == InitHistory /\ [][NextHistory]_vars

\* C32 as stated: scoreHistory never holds more than 1000 fingerprints.
C32_HistoryBounded == Len(scoreHistory) <= historyLimit

(***************************************************************************)
(* The router: the metadata of a decision                                  *)
(***************************************************************************)

\* C33 as stated: every decision route returns carries the fingerprint of
\* the request and the signals of its classification, so that
\* recordRoutingFeedback hands those signals to the adaptive manager.
C33_DecisionCarriesMeta ==
  ret.op = "route"
    => /\ ret.value.meta.exists
       /\ ret.value.meta.fingerprint = ret.arg.request.fingerprint
       /\ LET scored == collectSignals(scoreDimensions(ret.arg.request))
              passed == routingFeedback(ret.value,
                                        CHOOSE f \in Feedbacks : TRUE)
                          .dimensionSignals
          IN /\ Len(passed) >= Len(scored)
             /\ SubSeq(passed, 1, Len(scored)) = scored

-----------------------------------------------------------------------------
(* Score cache: eviction order *)

\* the keys that have a cache entry
cachedKeys(c) == {k \in Fingerprints : c.cache[k].exists}

\* the recency list after an access to key: key becomes the most recently
\* accessed, the order of the other keys is kept
accessed(order, key) == Append(SelectSeq(order, LAMBDA k : k # key), key)

\* C34: the recency list is advanced by every get that returns an entry and
\* by every set; a set of a key that has no entry, made when the cache holds
\* maxSize entries, removes exactly the entry at the head of that list (the
\* key least recently accessed by get or set) together with its jitter
\* history and lock, and leaves every other entry as it was; a set of a key
\* that already has an entry, or below capacity, removes no entry.
C34_LruEviction ==
  [][/\ (ret'.op = "get" /\ ret'.value.exists)
          => /\ scoreCache'.accessOrder
                  = accessed(scoreCache.accessOrder, ret'.arg.key)
             /\ cachedKeys(scoreCache') = cachedKeys(scoreCache)
     /\ ret'.op = "set"
          => LET key == ret'.arg.key
                 others == cachedKeys(scoreCache) \ {key}
             IN IF /\ cacheSize(scoreCache) >= scoreCache.maxSize
                   /\ ~scoreCache.cache[key].exists
                THEN LET oldest == Head(scoreCache.accessOrder)
                     IN /\ cachedKeys(scoreCache')
                             = (others \ {oldest}) \cup {key}
                        /\ scoreCache'.jitterTracker[oldest] = << >>
                        /\ scoreCache'.jitterLocks[oldest] = Null
                        /\ \A k \in others \ {oldest} :
                             /\ scoreCache'.cache[k] = scoreCache.cache[k]
                             /\ scoreCache'.jitterTracker[k]
                                  = scoreCache.jitterTracker[k]
                             /\ scoreCache'.jitterLocks[k]
                                  = scoreCache.jitterLocks[k]
                        /\ scoreCache'.accessOrder
                             = accessed(Tail(scoreCache.accessOrder), key)
                ELSE /\ cachedKeys(scoreCache') = others \cup {key}
                     /\ \A k \in others :
                          /\ scoreCache'.cache[k] = scoreCache.cache[k]
                          /\ scoreCache'.jitterTracker[k]
                               = scoreCache.jitterTracker[k]
                          /\ scoreCache'.jitterLocks[k]
                               = scoreCache.jitterLocks[k]
                     /\ scoreCache'.accessOrder
                          = accessed(scoreCache.accessOrder, key)]_vars

\* C34 witness: a cache of maxSize 2 after set(fpR), set(k), get(fpR) and
\* the set of a third key: k, the key not read since, is gone with its
\* jitter history, fpR and the new key remain, fpR with its hit counted
C34_Witness ==
  /\ ret.op = "set"
  /\ steps = 4
  /\ scoreCache.maxSize = 2
  /\ scoreCache.accessOrder = <<"fpR", ret.arg.key>>
  /\ scoreCache.cache["fpR"].hitCount = 2
  /\ \E k \in Fingerprints \ {"fpR", ret.arg.key} :
       /\ ~scoreCache.cache[k].exists
       /\ scoreCache.jitterTracker[k] = << >>

-----------------------------------------------------------------------------
(* Score cache: jitter state of removed entries *)

\* C35: a jitter history and a jitter lock exist only for keys that have a
\* cache entry: a key whose entry was removed by eviction, by a get that
\* found it expired, by cleanup or by clear has neither.
C35_JitterOnlyForCached ==
  \A k \in Fingerprints :
    ~scoreCache.cache[k].exists
      => /\ scoreCache.jitterTracker[k] = << >>
         /\ scoreCache.jitterLocks[k] = Null

-----------------------------------------------------------------------------
(* Health tracker: failures and availability *)

\* C36 as stated: a failed updateHealth on a model that isAvailable reported
\* unavailable immediately before it leaves the model unavailable.
C36_FailureKeepsUnavailable ==
  [][\A m \in Models :
       FailedUpdate(m) /\ ~isAvailableResult(healthRecords[m], now)
         => ~isAvailableResult(healthRecords'[m], now)]_vars

-----------------------------------------------------------------------------
(* Health tracker: how long a model stays unavailable.  Calls are made      *)
(* during the first LiveCallsUntil ms; the clock then runs on for longer    *)
(* than the longest cooldown.                                               *)

MaxLiveSteps == 3
LiveCallsUntil == 200000
LiveMaxTime == 600000

UpdateLive ==
  /\ now <= LiveCallsUntil
  /\ UpdateHealthOf({"primary"}, MaxLiveSteps)

ForceLive ==
  /\ now <= LiveCallsUntil
  /\ ForceCooldownOf({"primary"}, MaxLiveSteps)

\* the passage of time
TickLive ==
  /\ now + TickStep <= LiveMaxTime
  /\ now' = now + TickStep
  /\ ret' = NoRet
  /\ UNCHANGED <<healthVars, sessionVars, classifierVars, routerVars, steps>>

NextLive ==
  \/ UpdateLive
  \/ ForceLive
  \/ CheckPrimary
  \/ TickLive

\* time passes whatever the callers do
SpecLive == InitUnhealthy /\ [][NextLive]_vars /\ WF_vars(TickLive)

\* the largest totalRequests a model reaches
MaxLiveRequests == 8 + MaxLiveSteps

\* C37 as stated: a model that isAvailable reports unavailable is reported
\* available again later, unless a further updateHealth arrives for it.
C37_UnavailabilityEnds ==
  \A m \in Models : \A n \in 0..MaxLiveRequests :
    (/\ ~isAvailableResult(healthRecords[m], now)
     /\ healthRecords[m].totalRequests = n)
      ~> (\/ isAvailableResult(healthRecords[m], now)
          \/ healthRecords[m].totalRequests # n)

-----------------------------------------------------------------------------
(* Router: a healthy primary *)

\* the tracker has recorded no failed request of candidate m
NoRecordedFailure(m) ==
  getHealth(healthRecords, m).successfulRequests
    = getHealth(healthRecords, m).totalRequests

\* the primary of the routed tier is 'healthy' and has served requests, all
\* of them successful, and no candidate of the tier has a recorded failure
HealthyPrimary ==
  /\ getHealth(healthRecords, RoutedTierConfig.primary).status = "healthy"
  /\ getHealth(healthRecords, RoutedTierConfig.primary).totalRequests > 0
  /\ NoRecordedFailure(RoutedTierConfig.primary)
  /\ \A i \in 1..Len(RoutedTierConfig.fallback) :
       NoRecordedFailure(RoutedTierConfig.fallback[i])

\* C38 as stated: when route reaches the health check with such a primary,
\* getBestModel over [primary, ...fallback] returns the primary and the
\* decision is not annotated with health-override.
C38_HealthyPrimaryPreferred ==
  [][RoutesWithHealthCheck /\ HealthyPrimary
       => /\ getBestModel(healthRecords,
                          <<RoutedTierConfig.primary>>
                            \o RoutedTierConfig.fallback, now)
               = RoutedTierConfig.primary
          /\ \A i \in 1..Len(ret'.value.reasoning) :
               ret'.value.reasoning[i] # "health-override"]_vars

-----------------------------------------------------------------------------
(* Health tracker: consistency of a record *)

\* C39 as stated: the cooldownUntil of every model's record is non-zero
\* exactly when its status is 'cooldown'.
C39_CooldownUntilMatchesStatus ==
  \A m \in Models :
    healthRecords[m].exists
      => (healthRecords[m].cooldownUntil # 0
            <=> healthRecords[m].status = "cooldown")

-----------------------------------------------------------------------------
(* Score cache: the access order list *)

\* C40: accessOrder holds exactly the keys that have a cache entry, each of
\* them once.
C40_AccessOrderMatchesCache ==
  /\ {scoreCache.accessOrder[i] : i \in 1..Len(scoreCache.accessOrder)}
       = cachedKeys(scoreCache)
  /\ Len(scoreCache.accessOrder) = Cardinality(cachedKeys(scoreCache))

\* C40 witness: a get has just found its key expired and removed it, while
\* another key, set later, keeps its entry and is alone in accessOrder
C40_Witness ==
  /\ ret.op = "get"
  /\ ~ret.value.exists
  /\ scoreCache.jitterTracker[ret.arg.key] # << >>
  /\ Len(scoreCache.accessOrder) = 1
  /\ scoreCache.accessOrder[1] # ret.arg.key
  /\ scoreCache.cache[scoreCache.accessOrder[1]].exists

====
